---- MODULE Spec2Model ----
(***************************************************************************)
(* Retrieval orchestrator of FreeRead: NYTimesService.fetchArticle and     *)
(* WSJService.fetchArticle drive an ordered list of strategies             *)
(* (cookie-clearing, search-engine, headless, archive), classify the HTML  *)
(* each one yields and return the first accepted HTML or throw a terminal  *)
(* error built from lastError.                                             *)
(*                                                                         *)
(* A JavaScript string is a sequence of chunks; a substring test is a      *)
(* test on the chunks; the length of a string is the sum of the lengths of *)
(* its chunks.  The code tests a string only for the markers it includes,  *)
(* for emptiness and for a length above 1000, none of which depends on the *)
(* order or the repetition of chunks, so one string per set of chunks is   *)
(* enumerated.  A timestamp (a 14-digit string in the code, compared as a  *)
(* string) is a natural number.  A message is the sequence of the pieces   *)
(* the code concatenates.                                                  *)
(*                                                                         *)
(* Three collaborators are also modelled call by call, each with its own   *)
(* variables and its own specification, the other components standing      *)
(* idle: HeadlessService.fetchRenderedHtml (SpecHeadless),                 *)
(* ArchiveService.fetchFromArchive with either age preference              *)
(* (SpecArchive) and ContentProcessor.extractContent (SpecExtract).        *)
(***************************************************************************)
EXTENDS Naturals, Sequences, FiniteSets

\* ------------------------------------------------------------------ bounds
MaxChunks == 3      \* most chunks in a modelled string
MaxTs     == 3      \* timestamps are 1..MaxTs
MaxRows   == 3      \* rows of a CDX response, header row included

\* --------------------------------------------------------------- JS values
ChunkOrder ==
  << "article",           \* 1200 characters of article prose
     "p",                 \* one short paragraph
     "Please enable JS",
     "cloudflare",
     "Subscribe now",
     "Wayback Machine doesn't have that page archived" >>

Chunks == { ChunkOrder[k] : k \in DOMAIN ChunkOrder }

RECURSIVE Select(_, _)
Select(order, S) ==
  IF order = <<>> THEN <<>>
  ELSE (IF Head(order) \in S THEN <<Head(order)>> ELSE <<>>) \o Select(Tail(order), S)

ChunkLength(c) ==
  CASE c = "article"          -> 1200
    [] c = "p"                -> 80
    [] c = "Please enable JS" -> 16
    [] c = "cloudflare"       -> 10
    [] c = "Subscribe now"    -> 13
    [] OTHER                  -> 47

SeqsUpTo(S, n) == UNION { [1..k -> S] : k \in 0..n }

Str(cs) == [type |-> "string", chunks |-> cs]
Null    == [type |-> "null",   chunks |-> <<>>]
EmptyString == Str(<<>>)
Obj     == [type |-> "object", chunks |-> <<>>]

Strings ==
  { Str(Select(ChunkOrder, S)) : S \in { T \in SUBSET Chunks : Cardinality(T) <= MaxChunks } }
Data    == Strings \cup {Null, Obj}

IsString(v) == v.type = "string"

RECURSIVE SumLength(_)
SumLength(cs) == IF cs = <<>> THEN 0 ELSE ChunkLength(Head(cs)) + SumLength(Tail(cs))

\* v.length of a string
Length(v) == SumLength(v.chunks)

\* JavaScript truthiness: null and '' are falsy, objects and other strings truthy
Truthy(v) == v.type = "object" \/ (v.type = "string" /\ v.chunks # <<>>)

LowerChunk(c) ==
  CASE c = "Please enable JS" -> "please enable js"
    [] c = "Subscribe now"    -> "subscribe now"
    [] c = "Wayback Machine doesn't have that page archived"
                              -> "wayback machine doesn't have that page archived"
    [] OTHER                  -> c

toLowerCase(v) == Str([k \in DOMAIN v.chunks |-> LowerChunk(v.chunks[k])])

includes(v, needle) == \E k \in DOMAIN v.chunks : v.chunks[k] = needle

\* ------------------------------------------------- CookieService.hasPaywall
paywallIndicators ==
  { "subscribe to the times", "you've reached your article limit",
    "log in or create a free account", "subscribe to continue reading",
    "subscribe to wsj", "wall street journal subscription",
    "wsj.com subscription", "log in to continue reading",
    "sign in to continue", "this article is for subscribers only",
    "continue reading", "data-testid=\"paywall\"", "class=\"paywall\"",
    "id=\"paywall\"", "data-module=\"paywall\"", "article limit reached",
    "subscribe now", "become a subscriber", "subscribe to read",
    "subscription required", "premium content" }

botProtectionIndicators ==
  { "please enable js", "captcha-delivery.com", "cf-browser-verification",
    "checking your browser", "just a moment", "ddos protection", "cloudflare",
    "geo.captcha-delivery.com", "ct.captcha-delivery.com",
    "browser verification", "verify you are human" }

hasBotMarker(v) ==
  IsString(v) /\ \E ind \in botProtectionIndicators : includes(toLowerCase(v), ind)

hasPaywallMarker(v) ==
  IsString(v) /\ \E ind \in paywallIndicators : includes(toLowerCase(v), ind)

hasPaywall(v) ==
  IF ~Truthy(v) \/ ~IsString(v) THEN FALSE
  ELSE IF hasBotMarker(v) THEN TRUE
  ELSE hasPaywallMarker(v)

\* ------------------------------------------------------------------ errors
NoError  == [null |-> TRUE,  message |-> <<>>]
Error(m) == [null |-> FALSE, message |-> m]

\* what axios rejects with: a response with a 5xx status, a request without
\* a response, or a failure before the request was made
AxiosErrors ==
  { [response |-> "503", request |-> TRUE,  message |-> "Request failed with status code 503"],
    [response |-> "",    request |-> TRUE,  message |-> "socket hang up"],
    [response |-> "",    request |-> FALSE, message |-> "Invalid URL"] }

\* what puppeteer rejects with
PageErrors == { "Navigation timeout exceeded" }

\* the catch block of fetchWithClearedCookies and of fetchWithSearchReferrer
WrapTransportError(e) ==
  IF e.response # "" THEN Error(<<"HTTP ", e.response, ": ", e.message>>)
  ELSE IF e.request THEN Error(<<"Network error: ", e.message>>)
  ELSE Error(<<"Request error: ", e.message>>)

\* the catch block of fetchRenderedHtml
WrapHeadlessError(m) == Error(<<"Headless fetch failed: ", m>>)

\* ---------------------------------------------------------- ArchiveService
ArchiveLimit == 10          \* fetchFromArchive asks for 10 timestamps

\* response.data of the CDX query: not an array, or rows whose second column
\* is a timestamp (0: the row or its second column is missing or falsy)
NotArray     == [isArray |-> FALSE, rows |-> <<>>]
CdxResponses ==
  {NotArray} \cup { [isArray |-> TRUE, rows |-> r] : r \in SeqsUpTo(0..MaxTs, MaxRows) }

RECURSIVE CollectTimestamps(_, _, _, _)
CollectTimestamps(rows, k, acc, limit) ==
  IF k <= Len(rows) /\ Len(acc) < limit
  THEN CollectTimestamps(rows, k + 1,
                         IF rows[k] # 0 THEN Append(acc, rows[k]) ELSE acc, limit)
  ELSE acc

\* faulty variant: every row is read, whatever the limit
ParseTimestamps_NoLimit(data, limit) ==
  IF ~data.isArray \/ Len(data.rows) <= 1 THEN <<>>
  ELSE CollectTimestamps(data.rows, 2, <<>>, Len(data.rows))

\* getAvailableTimestamps, from response.data on
ParseTimestamps(data, limit) ==
  IF ~data.isArray \/ Len(data.rows) <= 1 THEN <<>>
  ELSE CollectTimestamps(data.rows, 2, <<>>, limit)

\* faulty variant: a snapshot taken at the cutoff is retained
RECURSIVE Filter_Inclusive(_, _)
Filter_Inclusive(s, cutoff) ==
  IF s = <<>> THEN <<>>
  ELSE IF Head(s) <= cutoff THEN <<Head(s)>> \o Filter_Inclusive(Tail(s), cutoff)
  ELSE Filter_Inclusive(Tail(s), cutoff)

RECURSIVE Filter(_, _)
Filter(s, cutoff) ==
  IF s = <<>> THEN <<>>
  ELSE IF Head(s) < cutoff THEN <<Head(s)>> \o Filter(Tail(s), cutoff)
  ELSE Filter(Tail(s), cutoff)

RECURSIVE Insert(_, _)
Insert(x, s) ==
  IF s = <<>> THEN <<x>>
  ELSE IF x <= Head(s) THEN <<x>> \o s
  ELSE <<Head(s)>> \o Insert(x, Tail(s))

RECURSIVE Sort(_)
Sort(s) == IF s = <<>> THEN <<>> ELSE Insert(Head(s), Sort(Tail(s)))

RECURSIVE Reverse(_)
Reverse(s) == IF s = <<>> THEN <<>> ELSE Append(Reverse(Tail(s)), Head(s))

\* faulty variant: the retained snapshots are visited oldest first
TimestampsToTry_OldestFirst(timestamps, older, cutoffTimestamp) ==
  IF older THEN Sort(Filter(timestamps, cutoffTimestamp))
  ELSE Reverse(timestamps)

\* faulty variant: without preferOlder the list is visited as listed
TimestampsToTry_AsListed(timestamps, older, cutoffTimestamp) ==
  IF older THEN Reverse(Sort(Filter(timestamps, cutoffTimestamp)))
  ELSE timestamps

\* the visit order computed by fetchFromArchive
TimestampsToTry(timestamps, preferOlder, cutoffTimestamp) ==
  IF preferOlder THEN Reverse(Sort(Filter(timestamps, cutoffTimestamp)))
  ELSE Reverse(timestamps)

\* the test a snapshot body must pass
ValidArchiveBody(d) ==
  /\ Truthy(d)
  /\ IsString(d)
  /\ Length(d) > 1000
  /\ ~includes(d, "Wayback Machine doesn't have that page archived")

TimestampsError(e) ==
  Error(<<"Archive fetch failed: ", "Failed to fetch archive timestamps: ", e.message>>)

\* faulty variant: a null result is reported as a failed archive fetch
NotInArchive_FetchFailed == Error(<<"Archive fetch failed: ", "null">>)

\* tryArchive: throw new Error('Article not available in archive')
NotInArchive == Error(<<"Article not available in archive">>)

\* ------------------------------------------------------------ orchestrator
NumUserAgents == 4          \* user agents WSJService.tryHeadless tries

\* faulty variant: the search-engine strategy is listed before cookie-clearing
Methods_SearchFirst(s) ==
  IF s = "nyt" THEN <<"search-engine", "cookie-clearing", "headless">>
  ELSE <<"search-engine", "cookie-clearing", "headless", "archive">>

Methods(s) ==
  IF s = "nyt" THEN <<"cookie-clearing", "search-engine", "headless">>
  ELSE <<"cookie-clearing", "search-engine", "headless", "archive">>

isEmpty(html) == ~Truthy(html) \/ ~IsString(html) \/ Length(html) = 0

\* html.toLowerCase() on a truthy value that is not a string
ThrowsTypeError(html) == Truthy(html) /\ ~IsString(html)

TypeError == Error(<<"html.toLowerCase is not a function">>)

jsBlock(html) == Truthy(html) /\ includes(toLowerCase(html), "please enable js")

isPaywalled(html) == Truthy(html) /\ hasPaywall(html)

\* faulty variant: only the headless strategy is ever accepted
NYTAccepts_HeadlessOnly(name, html) ==
  name = "headless" /\ ~isEmpty(html)

\* faulty variant: headless output is held to the same rule as the other strategies
NYTAccepts_NoHeadlessRule(name, html) ==
  ~isEmpty(html) /\ ~jsBlock(html) /\ ~isPaywalled(html)

\* faulty variant: whatever the headless strategy resolves with is accepted
NYTAccepts_HeadlessUnchecked(name, html) ==
  \/ name = "headless"
  \/ ~isEmpty(html) /\ ~jsBlock(html) /\ ~isPaywalled(html)

NYTAccepts(name, html) ==
  \/ name = "headless" /\ ~isEmpty(html)
  \/ ~isEmpty(html) /\ ~jsBlock(html) /\ ~isPaywalled(html)

\* faulty variant: the paywall test is missing from the general rule
WSJAccepts_NoPaywallCheck(name, html) ==
  \/ name = "headless" /\ ~isEmpty(html)
  \/ name = "archive" /\ ~isEmpty(html) /\ ~jsBlock(html)
  \/ ~isEmpty(html) /\ ~jsBlock(html)

\* faulty variant: the archive strategy is held to the general rule
WSJAccepts_ArchiveStrict(name, html) ==
  \/ name = "headless" /\ ~isEmpty(html)
  \/ ~isEmpty(html) /\ ~jsBlock(html) /\ ~isPaywalled(html)

WSJAccepts(name, html) ==
  \/ name = "headless" /\ ~isEmpty(html)
  \/ name = "archive" /\ ~isEmpty(html) /\ ~jsBlock(html)
  \/ ~isEmpty(html) /\ ~jsBlock(html) /\ ~isPaywalled(html)

Accepts(s, name, html) ==
  IF s = "nyt" THEN NYTAccepts(name, html) ELSE WSJAccepts(name, html)

\* faulty variant: the empty case is missing from the message
RejectionError_NoEmptyCase(name, html) ==
  Error(IF jsBlock(html) THEN <<"JS rendering required (method: ", name, ")">>
        ELSE <<"Paywall detected (method: ", name, ")">>)

\* the error built after a rejected verdict
RejectionError(name, html) ==
  Error(IF isEmpty(html) THEN <<"Empty HTML received (method: ", name, ")">>
        ELSE IF jsBlock(html) THEN <<"JS rendering required (method: ", name, ")">>
        ELSE <<"Paywall detected (method: ", name, ")">>)

\* faulty variant: the first failure is kept
RecordFailure_KeepFirst(previous, error) == IF previous.null THEN error ELSE previous

\* lastError = error / lastError = new Error(...)
RecordFailure(previous, error) == error

AllMethodsFailed(s) ==
  IF s = "nyt" THEN "All methods failed"
  ELSE "All methods failed. WSJ has a hard paywall - try an older article (>6 months) for archive access."

\* faulty variant: the default message is thrown whatever was recorded
TerminalError_DefaultMessage(s, last) ==
  <<IF s = "nyt" THEN "NYT fetch failed: " ELSE "WSJ fetch failed: ">>
    \o <<AllMethodsFailed(s)>>

\* the error thrown after the loop
TerminalError(s, last) ==
  <<IF s = "nyt" THEN "NYT fetch failed: " ELSE "WSJ fetch failed: ">>
    \o (IF last.null \/ last.message = <<>> THEN <<AllMethodsFailed(s)>> ELSE last.message)

Resolved(html) == [ok |-> TRUE,  html |-> html, error |-> NoError]
Rejected(err)  == [ok |-> FALSE, html |-> Null, error |-> err]

VARIABLES
  site,             \* which service runs the call: "nyt" or "wsj"
  pc,               \* position of the call
  i,                \* index of the current method in the methods list
  lastError,        \* fetchArticle's lastError
  result,           \* the value fetchArticle returned
  thrown,           \* the message of the error fetchArticle threw
  attempt,          \* WSJService.tryHeadless: the render attempt in progress
  timestampsToTry,  \* fetchFromArchive: the snapshots not yet visited
  lastYield,        \* the outcome of the strategy that settled last
  started,          \* history: the strategies started, in order
  inflight,         \* history: the strategies whose promise is pending
  failed,           \* history: the strategies that failed or were rejected
  occurred,         \* history: the message of every failure, as it occurs
  recorded,         \* history: the messages assigned to lastError
  onlyEmptyBodies,  \* history: every collaborator so far answered with ''
  archiveCall       \* history: what the strategy's fetchFromArchive call did

vars == <<site, pc, i, lastError, result, thrown, attempt, timestampsToTry,
          lastYield, started, inflight, failed, occurred, recorded, onlyEmptyBodies,
          archiveCall>>

\* HeadlessService.fetchRenderedHtml, one call
VARIABLES
  revision,         \* which of the two versions of the service runs
  hpc,              \* position of the call
  browser,          \* the local `browser`: "undefined" or "launched"
  closeCalls,       \* history: how many times browser.close() was invoked
  pending,          \* the completion the try block left for after finally
  contents,         \* history: what every page.content() resolved with
  hasBotProtection, \* the local of that name
  scrollGap,        \* auto-scroll: steps left before total reaches the limit
  scrollTick,       \* auto-scroll: parity of the steps taken
  path,             \* history: the positions the call went through
  ignored           \* history: how many rejections an inner catch swallowed

headlessVars == <<revision, hpc, browser, closeCalls, pending, contents,
                  hasBotProtection, scrollGap, scrollTick, path, ignored>>

\* ArchiveService.fetchFromArchive, one call
VARIABLES
  preferOlder,      \* options.preferOlder
  apc,              \* position of the call
  snapshots,        \* `timestamps`, as getAvailableTimestamps returned them
  queue,            \* the part of timestampsToTry not yet visited
  visited,          \* history: the snapshots requested, in order
  lastBody,         \* history: the body the last snapshot GET answered with
  archived,         \* what the call returned or threw
  query             \* getAvailableTimestamps alone: its limit and the response.data

archiveVars == <<preferOlder, apc, snapshots, queue, visited, lastBody, archived, query>>

\* ContentProcessor.extractContent, one call
VARIABLES
  epc,              \* position of the call
  input,            \* the html argument
  document,         \* the DOM that JSDOM built from the html argument
  article,          \* what Readability's parse() returned
  executed,         \* history: the extraction tiers executed, in order
  extracted,        \* what the call returned or threw
  call,             \* which call of the page this is, the first or the second
  previous          \* history: how the first call of the page went

extractVars == <<epc, input, document, article, executed, extracted, call, previous>>

\* the handler of POST /api/fetch, one request
VARIABLES
  url,              \* req.body.url
  rpc,              \* position of the handler
  method,           \* the local `method`
  response,         \* what the handler sent: status and body
  invoked,          \* history: the collaborators the handler invoked, in order
  sent              \* history: every response the handler sent, in order

apiVars == <<url, rpc, method, response, invoked, sent>>

\* two requests in the same process
VARIABLES
  reqs,             \* the locals of each of the two handler activations
  shared,           \* the fields of the module-level singletons, and the debug directory
  accesses          \* history: which request read or wrote which shared field

pairVars == <<reqs, shared, accesses>>

allVars == <<vars, headlessVars, archiveVars, extractVars, apiVars, pairVars>>

NoArchiveCall ==
  [index |-> "none", candidates |-> 0, visits |-> 0, returned |-> "none"]

\* a component that is not running in the specification at hand
HeadlessIdle ==
  /\ revision = 1 /\ hpc = "idle" /\ browser = "undefined" /\ closeCalls = 0
  /\ pending = [kind |-> "none", html |-> Null, message |-> <<>>]
  /\ contents = <<>> /\ hasBotProtection = FALSE
  /\ scrollGap = 0 /\ scrollTick = 0 /\ path = <<>> /\ ignored = 0

ArchiveIdle ==
  /\ preferOlder = FALSE /\ apc = "idle" /\ snapshots = <<>> /\ queue = <<>>
  /\ visited = <<>> /\ lastBody = Null
  /\ archived = [kind |-> "pending", html |-> Null, timestamp |-> 0, message |-> <<>>]
  /\ query = [limit |-> 0, data |-> [isArray |-> FALSE, rows |-> <<>>]]

NoExtraction ==
  [kind |-> "pending", tier |-> 0, title |-> "",
   text |-> [paras |-> <<>>, joiner |-> 0, trailing |-> 0],
   length |-> 0, message |-> <<>>]

ExtractIdle ==
  /\ epc = "idle" /\ input = Null
  /\ document = [paras |-> {}, h1 |-> "", title |-> ""]
  /\ article = [parsed |-> FALSE, textContent |-> 0, title |-> "", length |-> 0]
  /\ executed = <<>>
  /\ extracted = NoExtraction
  /\ call = 1
  /\ previous = [outcome |-> NoExtraction, article |-> article, parsed |-> FALSE]

NoResponse == [status |-> 0, success |-> FALSE, code |-> "", error |-> <<>>,
               method |-> "", content |-> NoExtraction]

NoUrl == [truthy |-> FALSE, string |-> FALSE, parses |-> FALSE, protocol |-> "",
          hostname |-> ""]

ApiIdle ==
  /\ url = NoUrl /\ rpc = "idle" /\ method = "" /\ response = NoResponse
  /\ invoked = <<>>
  /\ sent = <<>>

PairIdle ==
  /\ reqs = <<>>
  /\ shared = [minContentLength |-> 20, debugMode |-> FALSE, debugDir |-> {}]
  /\ accesses = {}

NoYield == [name |-> "", ok |-> FALSE, html |-> Null]

OrchestratorIdle ==
  /\ site = "nyt" /\ pc = "idle" /\ i = 1 /\ lastError = NoError /\ result = Null
  /\ thrown = <<>> /\ attempt = 0 /\ timestampsToTry = <<>> /\ lastYield = NoYield
  /\ started = <<>> /\ inflight = {} /\ failed = <<>> /\ occurred = <<>>
  /\ recorded = <<>> /\ onlyEmptyBodies = TRUE /\ archiveCall = NoArchiveCall

Init ==
  /\ site \in {"nyt", "wsj"}
  /\ pc = "loop"
  /\ i = 1
  /\ lastError = NoError
  /\ result = Null
  /\ thrown = <<>>
  /\ attempt = 0
  /\ timestampsToTry = <<>>
  /\ lastYield = NoYield
  /\ started = <<>>
  /\ inflight = {}
  /\ failed = <<>>
  /\ occurred = <<>>
  /\ recorded = <<>>
  /\ onlyEmptyBodies = TRUE
  /\ archiveCall = NoArchiveCall
  /\ HeadlessIdle /\ ArchiveIdle /\ ExtractIdle /\ ApiIdle /\ PairIdle

AwaitOf(name) ==
  CASE name = "cookie-clearing" -> "cookie"
    [] name = "search-engine"   -> "search"
    [] name = "headless"        -> "render"
    [] OTHER                    -> "cdx"

\* for (const method of methods) { ... await method.fn() : the call is made
Invoke ==
  /\ pc = "loop"
  /\ UNCHANGED <<archiveCall, headlessVars, archiveVars, extractVars, apiVars, pairVars>>
  /\ i <= Len(Methods(site))
  /\ LET name == Methods(site)[i] IN
       /\ pc' = AwaitOf(name)
       /\ started' = Append(started, name)
       /\ inflight' = inflight \cup {name}
       /\ attempt' = IF site = "wsj" /\ name = "headless" THEN 1 ELSE 0
  /\ UNCHANGED <<site, i, lastError, result, thrown, timestampsToTry,
                 lastYield, failed, occurred, recorded, onlyEmptyBodies>>

\* the rest of the loop body once method.fn() has settled with `out`;
\* `swallowed` are the failures caught inside the strategy in this step
Settled(name, out, swallowed) ==
  LET typeError == out.ok /\ ThrowsTypeError(out.html)
      accepted  == out.ok /\ ~typeError /\ Accepts(site, name, out.html)
      error     == IF ~out.ok THEN out.error
                   ELSE IF typeError THEN TypeError
                   ELSE RejectionError(name, out.html)
  IN /\ inflight' = inflight \ {name}
     /\ lastYield' = [name |-> name, ok |-> out.ok, html |-> out.html]
     /\ attempt' = 0
     /\ timestampsToTry' = <<>>
     /\ IF accepted
        THEN /\ pc' = "returned"
             /\ result' = out.html
             /\ occurred' = occurred \o swallowed
             /\ UNCHANGED <<i, lastError, thrown, failed, recorded>>
        ELSE /\ lastError' = RecordFailure(lastError, error)
             /\ recorded' = Append(recorded, lastError'.message)
             /\ occurred' = (occurred \o swallowed) \o <<error.message>>
             /\ failed' = Append(failed, name)
             /\ i' = i + 1
             /\ IF i = Len(Methods(site))
                THEN pc' = "thrown" /\ thrown' = TerminalError(site, lastError')
                ELSE pc' = "loop" /\ UNCHANGED thrown
             /\ UNCHANGED result
     /\ UNCHANGED <<site, started>>

\* tryCookieClearing: fetchWithClearedCookies settles
CookieSettles ==
  /\ pc = "cookie"
  /\ UNCHANGED <<archiveCall, headlessVars, archiveVars, extractVars, apiVars, pairVars>>
  /\ \/ \E d \in Data :
          /\ Settled("cookie-clearing", Resolved(d), <<>>)
          /\ onlyEmptyBodies' = (onlyEmptyBodies /\ d = EmptyString)
     \/ \E e \in AxiosErrors :
          /\ Settled("cookie-clearing", Rejected(WrapTransportError(e)), <<>>)
          /\ onlyEmptyBodies' = FALSE

InvalidUrl == Error(<<"Invalid URL: cannot extract domain">>)

\* trySearchEngine: fetchWithSearchReferrer settles, result.html is taken
SearchSettles ==
  /\ pc = "search"
  /\ UNCHANGED <<archiveCall, headlessVars, archiveVars, extractVars, apiVars, pairVars>>
  /\ \/ \E d \in Data :
          /\ Settled("search-engine", Resolved(d), <<>>)
          /\ onlyEmptyBodies' = (onlyEmptyBodies /\ d = EmptyString)
     \/ \E e \in AxiosErrors :
          /\ Settled("search-engine", Rejected(WrapTransportError(e)), <<>>)
          /\ onlyEmptyBodies' = FALSE
     \/ /\ Settled("search-engine", Rejected(InvalidUrl), <<>>)
         /\ onlyEmptyBodies' = FALSE

\* NYTimesService.tryHeadless: fetchRenderedHtml settles
RenderSettles ==
  /\ pc = "render"
  /\ UNCHANGED <<archiveCall, headlessVars, archiveVars, extractVars, apiVars, pairVars>>
  /\ site = "nyt"
  /\ \/ \E d \in Strings :
          /\ Settled("headless", Resolved(d), <<>>)
          /\ onlyEmptyBodies' = (onlyEmptyBodies /\ d = EmptyString)
     \/ \E m \in PageErrors :
          /\ Settled("headless", Rejected(WrapHeadlessError(m)), <<>>)
          /\ onlyEmptyBodies' = FALSE

\* WSJService.tryHeadless, one pass of the user-agent loop
RenderAttemptSettles ==
  /\ pc = "render"
  /\ UNCHANGED <<archiveCall, headlessVars, archiveVars, extractVars, apiVars, pairVars>>
  /\ site = "wsj"
  /\ attempt <= NumUserAgents
  /\ \/ \E d \in Strings :
          /\ onlyEmptyBodies' = (onlyEmptyBodies /\ d = EmptyString)
          /\ IF Truthy(d) /\ Length(d) > 1000
             THEN Settled("headless", Resolved(d), <<>>)
             ELSE
               /\ attempt' = attempt + 1
               /\ UNCHANGED <<site, pc, i, lastError, result, thrown, timestampsToTry,
                              lastYield, started, inflight, failed, occurred, recorded>>
     \/ \E m \in PageErrors :
          /\ onlyEmptyBodies' = FALSE
          /\ attempt' = attempt + 1
          /\ occurred' = Append(occurred, WrapHeadlessError(m).message)
          /\ UNCHANGED <<site, pc, i, lastError, result, thrown, timestampsToTry,
                         lastYield, started, inflight, failed, recorded>>

\* WSJService.tryHeadless, the last try with the default user agent
RenderDefaultSettles ==
  /\ pc = "render"
  /\ UNCHANGED <<archiveCall, headlessVars, archiveVars, extractVars, apiVars, pairVars>>
  /\ site = "wsj"
  /\ attempt = NumUserAgents + 1
  /\ \/ \E d \in Strings :
          /\ Settled("headless", Resolved(d), <<>>)
          /\ onlyEmptyBodies' = (onlyEmptyBodies /\ d = EmptyString)
     \/ \E m \in PageErrors :
          /\ Settled("headless", Rejected(WrapHeadlessError(m)), <<>>)
          /\ onlyEmptyBodies' = FALSE

\* tryArchive -> fetchFromArchive: the CDX query settles; the clock gives the
\* cutoff timestamp (six months before now)
CdxSettles ==
  /\ pc = "cdx"
  /\ UNCHANGED <<headlessVars, archiveVars, extractVars, apiVars, pairVars>>
  /\ \/ \E e \in AxiosErrors :
          /\ Settled("archive", Rejected(TimestampsError(e)), <<>>)
          /\ onlyEmptyBodies' = FALSE
          /\ archiveCall' = [index |-> "failed", candidates |-> 0, visits |-> 0,
                             returned |-> "threw"]
     \/ \E data \in CdxResponses, cutoffTimestamp \in 1..(MaxTs + 1) :
          LET timestamps == ParseTimestamps(data, ArchiveLimit)
              toTry == TimestampsToTry(timestamps, TRUE, cutoffTimestamp)
              index == IF timestamps = <<>> THEN "empty" ELSE "listed"
          IN IF timestamps = <<>> \/ toTry = <<>>
             THEN /\ Settled("archive", Rejected(NotInArchive), <<>>)
                  /\ UNCHANGED onlyEmptyBodies
                  /\ archiveCall' = [index |-> index, candidates |-> 0, visits |-> 0,
                                     returned |-> "null"]
             ELSE /\ pc' = "snapshot"
                  /\ UNCHANGED onlyEmptyBodies
                  /\ timestampsToTry' = toTry
                  /\ archiveCall' = [index |-> index, candidates |-> Len(toTry),
                                     visits |-> 0, returned |-> "none"]
                  /\ UNCHANGED <<site, i, lastError, result, thrown, attempt, lastYield,
                                 started, inflight, failed, occurred, recorded>>

\* fetchFromArchive: the GET of the snapshot at Head(timestampsToTry) settles
SnapshotSettles ==
  /\ pc = "snapshot"
  /\ UNCHANGED <<headlessVars, archiveVars, extractVars, apiVars, pairVars>>
  /\ timestampsToTry # <<>>
  /\ LET rest == Tail(timestampsToTry)
         Visit(returned) == [archiveCall EXCEPT !.visits = @ + 1, !.returned = returned]
         Next1(swallowed) ==
           IF rest = <<>>
           THEN /\ Settled("archive", Rejected(NotInArchive), swallowed)
                /\ archiveCall' = Visit("null")
           ELSE /\ timestampsToTry' = rest
                /\ occurred' = occurred \o swallowed
                /\ archiveCall' = Visit("none")
                /\ UNCHANGED <<site, pc, i, lastError, result, thrown, attempt, lastYield,
                               started, inflight, failed, recorded>>
     IN \/ \E d \in Data :
             /\ onlyEmptyBodies' = (onlyEmptyBodies /\ d = EmptyString)
             /\ IF ValidArchiveBody(d)
                THEN /\ Settled("archive", Resolved(d), <<>>)
                     /\ archiveCall' = Visit("snapshot")
                ELSE Next1(<<>>)
        \/ \E e \in AxiosErrors :
             /\ onlyEmptyBodies' = FALSE
             /\ Next1(<<<<e.message>>>>)

Next ==
  \/ Invoke
  \/ CookieSettles
  \/ SearchSettles
  \/ RenderSettles
  \/ RenderAttemptSettles
  \/ RenderDefaultSettles
  \/ CdxSettles
  \/ SnapshotSettles

Spec == Init /\ [][Next]_vars

TypeOK ==
  /\ site \in {"nyt", "wsj"}
  /\ pc \in {"loop", "cookie", "search", "render", "cdx", "snapshot", "returned", "thrown"}
  /\ i \in 1..5
  /\ attempt \in 0..(NumUserAgents + 1)

\* ------------------------------------------------ HeadlessService
\* One call of fetchRenderedHtml.  Every `await` is a position of the call;
\* an awaited promise resolves or rejects.  The file holds two versions of
\* the service: the first samples the DOM for a bot challenge and removes
\* overlays, the second goes from navigation to the selector wait.
MaxScroll == 3      \* the page's first scroll limit is 0..MaxScroll steps

LaunchErrors == { "Failed to launch the browser process" }

\* what page.content() can resolve with
DomSamples ==
  { Str(<<"article">>),
    Str(<<"just a moment">>),
    Str(<<"captcha-delivery.com">>),
    Str(<<"article", "captcha-delivery.com">>) }

\* hasBotProtection after the first sample
InitialBotCheck(initialContent) ==
  \/ includes(initialContent, "captcha-delivery.com")
  \/ includes(initialContent, "cf-browser-verification")
  \/ includes(initialContent, "checking your browser")
  \/ includes(initialContent, "just a moment")
  \/ includes(initialContent, "DataDome CAPTCHA")

\* hasBotProtection after the second sample
RecheckBot(initialContent) ==
  \/ includes(initialContent, "captcha-delivery.com")
  \/ includes(initialContent, "DataDome CAPTCHA")

\* faulty variant: the challenge is waited for again while it is displayed
AfterRecheck_Loop(stillChallenged) ==
  IF stillChallenged THEN "challengeDelay" ELSE "settleDelay"

\* where the call goes once the DOM was sampled again
AfterRecheck(stillChallenged) ==
  IF stillChallenged THEN "iframe" ELSE "settleDelay"

\* faulty variant: the browser is left to the garbage collector
Finally_NoClose(b) == "done"

\* finally { if (browser) { try { await browser.close(); } catch (_) {} } }
Finally(b) == IF b = "launched" THEN "close" ELSE "done"

\* the position that follows `pos` when nothing is thrown and no test is made
Sequel(rev, pos) ==
  CASE pos = "launch"            -> "newPage"
    [] pos = "newPage"           -> "setup"
    [] pos = "setup"             -> "goto"
    [] pos = "goto"              -> IF rev = 1 THEN "initialContent" ELSE "waitForSelector"
    [] pos = "challengeDelay"    -> "waitForFunction"
    [] pos = "waitForFunction"   -> "waitForNavigation"
    [] pos = "waitForNavigation" -> "recheck"
    [] pos = "iframe"            -> "settleDelay"
    [] pos = "settleDelay"       -> "removeOverlays"
    [] pos = "removeOverlays"    -> "scrollDelay"
    [] pos = "scrollDelay"       -> "scroll"
    [] pos = "scroll"            -> IF rev = 1 THEN "lazyDelay" ELSE "content"
    [] pos = "lazyDelay"         -> "waitForSelector"
    [] pos = "waitForSelector"   -> IF rev = 1 THEN "content" ELSE "scroll"
    [] OTHER                     -> "done"

NothingPending == [kind |-> "none", html |-> Null, message |-> <<>>]

InitHeadless ==
  /\ revision \in {1, 2}
  /\ hpc = "launch"
  /\ browser = "undefined"
  /\ closeCalls = 0
  /\ pending = NothingPending
  /\ contents = <<>>
  /\ hasBotProtection = FALSE
  /\ scrollGap \in 0..MaxScroll
  /\ scrollTick = 0
  /\ path = <<"launch">>
  /\ ignored = 0
  /\ OrchestratorIdle /\ ArchiveIdle /\ ExtractIdle /\ ApiIdle /\ PairIdle

Go(next) ==
  /\ hpc' = next
  /\ path' = Append(path, next)

\* a rejection that no inner catch takes: catch (err) wraps it, finally runs
Throw(m, b) ==
  /\ pending' = [kind |-> "throw", html |-> Null, message |-> WrapHeadlessError(m).message]
  /\ Go(Finally(b))

\* an awaited call outside every inner try: it resolves, or the call fails
Mandatory(pos) ==
  /\ \/ Go(Sequel(revision, pos)) /\ UNCHANGED pending
     \/ \E m \in PageErrors : Throw(m, browser)
  /\ UNCHANGED <<revision, browser, closeCalls, contents, hasBotProtection,
                 scrollGap, scrollTick, ignored>>
  /\ UNCHANGED <<vars, archiveVars, extractVars, apiVars, pairVars>>

\* an awaited call inside try { } catch { }: a rejection is swallowed
Optional(pos) ==
  /\ Go(Sequel(revision, pos))
  /\ \/ UNCHANGED ignored
     \/ ignored' = ignored + 1
  /\ UNCHANGED <<revision, browser, closeCalls, pending, contents, hasBotProtection,
                 scrollGap, scrollTick>>
  /\ UNCHANGED <<vars, archiveVars, extractVars, apiVars, pairVars>>

\* browser = await puppeteer.launch(launchOptions)
Launch ==
  /\ hpc = "launch"
  /\ \/ /\ browser' = "launched"
        /\ Go(Sequel(revision, "launch"))
        /\ UNCHANGED pending
     \/ \E m \in LaunchErrors :
        /\ UNCHANGED browser
        /\ Throw(m, browser)
  /\ UNCHANGED <<revision, closeCalls, contents, hasBotProtection,
                 scrollGap, scrollTick, ignored>>
  /\ UNCHANGED <<vars, archiveVars, extractVars, apiVars, pairVars>>

\* const page = await browser.newPage()
NewPage ==
  /\ hpc = "newPage"
  /\ Mandatory("newPage")

\* evaluateOnNewDocument, setViewport, setUserAgent, setExtraHTTPHeaders
Setup ==
  /\ hpc = "setup"
  /\ Mandatory("setup")

\* await page.goto(url, { waitUntil, timeout: navigationTimeoutMs })
Goto ==
  /\ hpc = "goto"
  /\ Mandatory("goto")

\* let initialContent = await page.content(); let hasBotProtection = ...
InitialContent ==
  /\ hpc = "initialContent"
  /\ \/ \E c \in DomSamples :
        /\ contents' = Append(contents, c)
        /\ hasBotProtection' = InitialBotCheck(c)
        /\ Go(IF hasBotProtection' THEN "challengeDelay" ELSE "settleDelay")
        /\ UNCHANGED pending
     \/ \E m \in PageErrors :
        /\ Throw(m, browser)
        /\ UNCHANGED <<contents, hasBotProtection>>
  /\ UNCHANGED <<revision, browser, closeCalls, scrollGap, scrollTick, ignored>>
  /\ UNCHANGED <<vars, archiveVars, extractVars, apiVars, pairVars>>

\* await new Promise(resolve => setTimeout(resolve, ms)), the four of them
Delay ==
  /\ hpc \in {"challengeDelay", "settleDelay", "scrollDelay", "lazyDelay"}
  /\ Go(Sequel(revision, hpc))
  /\ UNCHANGED <<revision, browser, closeCalls, pending, contents, hasBotProtection,
                 scrollGap, scrollTick, ignored>>
  /\ UNCHANGED <<vars, archiveVars, extractVars, apiVars, pairVars>>

\* try { await page.waitForFunction(..., { timeout: 20000 }) } catch (e) { }
WaitForFunction ==
  /\ hpc = "waitForFunction"
  /\ Optional("waitForFunction")

\* try { await page.waitForNavigation({ ..., timeout: 20000 }) } catch (e) { }
WaitForNavigation ==
  /\ hpc = "waitForNavigation"
  /\ Optional("waitForNavigation")

\* initialContent = await page.content(); hasBotProtection = ...
Recheck ==
  /\ hpc = "recheck"
  /\ \/ \E c \in DomSamples :
        /\ contents' = Append(contents, c)
        /\ hasBotProtection' = RecheckBot(c)
        /\ Go(AfterRecheck(hasBotProtection'))
        /\ UNCHANGED pending
     \/ \E m \in PageErrors :
        /\ Throw(m, browser)
        /\ UNCHANGED <<contents, hasBotProtection>>
  /\ UNCHANGED <<revision, browser, closeCalls, scrollGap, scrollTick, ignored>>
  /\ UNCHANGED <<vars, archiveVars, extractVars, apiVars, pairVars>>

\* try { iframe = await page.$(...); frame; 5 s wait } catch (e) { }
IframeInteraction ==
  /\ hpc = "iframe"
  /\ Optional("iframe")

\* try { await page.evaluate(<remove paywall overlays>) } catch (e) { }
RemoveOverlays ==
  /\ hpc = "removeOverlays"
  /\ Optional("removeOverlays")

\* one turn of step() inside page.evaluate: the page is scrolled by one step,
\* total grows by one step, and the page may have grown by as much as moves
\* the limit (scrollHeight times the factor) one step further.  The promise
\* resolves when total has reached the limit; a rejection of page.evaluate
\* is swallowed.
ScrollStep ==
  /\ hpc = "scroll"
  /\ \/ \E grow \in 0..1 :
        IF scrollGap + grow > 1
        THEN /\ scrollGap' = (scrollGap + grow) - 1
             /\ scrollTick' = 1 - scrollTick
             /\ UNCHANGED <<hpc, path, ignored>>
        ELSE /\ scrollGap' = 0
             /\ scrollTick' = 1 - scrollTick
             /\ Go(Sequel(revision, "scroll"))
             /\ UNCHANGED ignored
     \/ /\ ignored' = ignored + 1
        /\ Go(Sequel(revision, "scroll"))
        /\ UNCHANGED <<scrollGap, scrollTick>>
  /\ UNCHANGED <<revision, browser, closeCalls, pending, contents, hasBotProtection>>
  /\ UNCHANGED <<vars, archiveVars, extractVars, apiVars, pairVars>>

\* try { await page.waitForSelector(..., { timeout }) } catch (_) { }
WaitForSelector ==
  /\ hpc = "waitForSelector"
  /\ Optional("waitForSelector")

\* const html = await page.content(); return html
Content ==
  /\ hpc = "content"
  /\ \/ \E c \in DomSamples :
        /\ contents' = Append(contents, c)
        /\ pending' = [kind |-> "return", html |-> c, message |-> <<>>]
        /\ Go(Finally(browser))
     \/ \E m \in PageErrors :
        /\ Throw(m, browser)
        /\ UNCHANGED contents
  /\ UNCHANGED <<revision, browser, closeCalls, hasBotProtection,
                 scrollGap, scrollTick, ignored>>
  /\ UNCHANGED <<vars, archiveVars, extractVars, apiVars, pairVars>>

\* try { await browser.close(); } catch (_) {} ; then the pending completion
Close ==
  /\ hpc = "close"
  /\ closeCalls' = closeCalls + 1
  /\ Go("done")
  /\ \/ UNCHANGED ignored
     \/ ignored' = ignored + 1
  /\ UNCHANGED <<revision, browser, pending, contents, hasBotProtection,
                 scrollGap, scrollTick>>
  /\ UNCHANGED <<vars, archiveVars, extractVars, apiVars, pairVars>>

NextHeadless ==
  \/ Launch
  \/ NewPage
  \/ Setup
  \/ Goto
  \/ InitialContent
  \/ Delay
  \/ WaitForFunction
  \/ WaitForNavigation
  \/ Recheck
  \/ IframeInteraction
  \/ RemoveOverlays
  \/ ScrollStep
  \/ WaitForSelector
  \/ Content
  \/ Close

SpecHeadless == InitHeadless /\ [][NextHeadless]_allVars

\* the event loop runs a callback that is ready: a step that can be taken is
\* taken
SpecHeadlessFair == SpecHeadless /\ WF_allVars(NextHeadless)

\* ------------------------------------------------- ArchiveService
\* One call of fetchFromArchive(url, options).  Time is counted in months: a
\* timestamp is the month the snapshot was taken in, and the cutoff is the
\* month six months before now.
NowMonth     == 14  \* the month of the call
MaxSnapshots == 3   \* most snapshots the index lists
CutoffMonths == 6   \* sixMonthsAgo.setMonth(sixMonthsAgo.getMonth() - 6)

SnapshotAges == {2, 6, 8, 13}

MonthOf(age) == NowMonth - age

CutoffTimestamp == NowMonth - CutoffMonths

\* response.data of the CDX query: a header row and one row per snapshot
ArchiveIndexes ==
  {NotArray} \cup
  { [isArray |-> TRUE, rows |-> <<0>> \o r] :
      r \in SeqsUpTo({ MonthOf(a) : a \in SnapshotAges }, MaxSnapshots) }

\* response.data of a snapshot GET
ArchiveBodies ==
  { Str(<<"article">>),
    Str(<<"p">>),
    Str(<<"article", "Wayback Machine doesn't have that page archived">>),
    EmptyString,
    Obj }

NothingArchived == [kind |-> "pending", html |-> Null, timestamp |-> 0, message |-> <<>>]

\* return null
ArchiveNull == [kind |-> "null", html |-> Null, timestamp |-> 0, message |-> <<>>]

\* faulty variant: the timestamp of the snapshot is left out
ArchiveResult_NoTimestamp(html, timestamp) ==
  [kind |-> "snapshot", html |-> html, timestamp |-> 0, message |-> <<>>]

\* return { html: response.data, timestamp: timestamp, source: 'archive' }
ArchiveResult(html, timestamp) ==
  [kind |-> "snapshot", html |-> html, timestamp |-> timestamp, message |-> <<>>]

\* throw new Error(`Archive fetch failed: ${error.message}`)
ArchiveThrown(e) ==
  [kind |-> "threw", html |-> Null, timestamp |-> 0, message |-> TimestampsError(e).message]

InitArchive ==
  /\ preferOlder \in BOOLEAN
  /\ apc = "cdx"
  /\ snapshots = <<>>
  /\ queue = <<>>
  /\ visited = <<>>
  /\ lastBody = Null
  /\ archived = NothingArchived
  /\ query = [limit |-> 0, data |-> NotArray]
  /\ OrchestratorIdle /\ HeadlessIdle /\ ExtractIdle /\ ApiIdle /\ PairIdle

\* const timestamps = await this.getAvailableTimestamps(url, 10), and the
\* choice of timestampsToTry
ListSnapshots ==
  /\ apc = "cdx"
  /\ \/ \E e \in AxiosErrors :
        /\ archived' = ArchiveThrown(e)
        /\ apc' = "done"
        /\ UNCHANGED <<snapshots, queue>>
     \/ \E data \in ArchiveIndexes :
        LET timestamps == ParseTimestamps(data, ArchiveLimit)
            timestampsToTry1 == TimestampsToTry(timestamps, preferOlder, CutoffTimestamp)
        IN /\ snapshots' = timestamps
           /\ IF timestamps = <<>> \/ timestampsToTry1 = <<>>
              THEN /\ archived' = ArchiveNull
                   /\ apc' = "done"
                   /\ UNCHANGED queue
              ELSE /\ queue' = timestampsToTry1
                   /\ apc' = "snapshot"
                   /\ UNCHANGED archived
  /\ UNCHANGED <<preferOlder, visited, lastBody, query>>
  /\ UNCHANGED <<vars, headlessVars, extractVars, apiVars, pairVars>>

\* one pass of for (const timestamp of timestampsToTry): the GET settles
VisitSnapshot ==
  /\ apc = "snapshot"
  /\ queue # <<>>
  /\ LET timestamp == Head(queue)
         Continue ==
           /\ queue' = Tail(queue)
           /\ IF Tail(queue) = <<>>
              THEN archived' = ArchiveNull /\ apc' = "done"
              ELSE UNCHANGED <<archived, apc>>
     IN \/ \E d \in ArchiveBodies :
           /\ lastBody' = d
           /\ visited' = Append(visited, [timestamp |-> timestamp,
                                          valid |-> ValidArchiveBody(d)])
           /\ IF ValidArchiveBody(d)
              THEN /\ archived' = ArchiveResult(d, timestamp)
                   /\ apc' = "done"
                   /\ UNCHANGED queue
              ELSE Continue
        \/ /\ lastBody' = Null
           /\ visited' = Append(visited, [timestamp |-> timestamp, valid |-> FALSE])
           /\ Continue
  /\ UNCHANGED <<preferOlder, snapshots, query>>
  /\ UNCHANGED <<vars, headlessVars, extractVars, apiVars, pairVars>>

NextArchive ==
  \/ ListSnapshots
  \/ VisitSnapshot

SpecArchive == InitArchive /\ [][NextArchive]_allVars

\* ------------------------------ ArchiveService.getAvailableTimestamps
\* One call of getAvailableTimestamps(url, limit), with the response.data
\* the CDX query is answered with.
MaxLimit == 2           \* the largest limit asked for

InitTimestamps ==
  /\ preferOlder = FALSE
  /\ apc = "cdx"
  /\ snapshots = <<>>
  /\ queue = <<>>
  /\ visited = <<>>
  /\ lastBody = Null
  /\ archived = NothingArchived
  /\ query \in [limit : 0..MaxLimit, data : CdxResponses]
  /\ OrchestratorIdle /\ HeadlessIdle /\ ExtractIdle /\ ApiIdle /\ PairIdle

\* the axios.get settles: the timestamps are returned, or the rejection is
\* wrapped and thrown
getAvailableTimestamps ==
  /\ apc = "cdx"
  /\ \/ /\ snapshots' = ParseTimestamps(query.data, query.limit)
        /\ apc' = "listed"
        /\ UNCHANGED archived
     \/ \E e \in AxiosErrors :
          /\ archived' = ArchiveThrown(e)
          /\ apc' = "done"
          /\ UNCHANGED snapshots
  /\ UNCHANGED <<preferOlder, queue, visited, lastBody, query>>
  /\ UNCHANGED <<vars, headlessVars, extractVars, apiVars, pairVars>>

SpecTimestamps == InitTimestamps /\ [][getAvailableTimestamps]_allVars

\* ------------------------------------------------ ContentProcessor
\* One call of extractContent(html, url).  The DOM is its <h1> and <title>
\* texts and the set of its <p> elements: the length of a paragraph's trimmed
\* text, the filter phrase the text includes, and where the paragraph stands
\* (inside <article>, inside nav, footer or a paywall element, or elsewhere on
\* the page).  The <article> element holds its paragraphs and nothing else.
\* A text is the paragraphs it was built from, the length of the separator
\* between them and the length of what follows the last one.
MaxParas == 4           \* most <p> elements in a modelled page
MaxTwinParas == 3       \* most <p> elements in a page that is extracted twice
minContentLength == 20  \* this.minContentLength

\* the paragraphs a page is made of: inside <article> every length class
\* (up to 30, up to 50, above 50, above 200) with and without the phrases the
\* container branch tells apart; outside it the paragraphs long enough to be
\* collected page-wide, one of them inside an element that only a selector
\* of the aggressive salvage matches (#article-body)
Paragraphs ==
  [len : {20, 40, 80, 250}, phrase : {"", "subscribe", "cookie"}, place : {"article"}]
    \cup [len : {80}, phrase : {"", "subscribe", "log in"}, place : {"page"}]
    \cup [len : {80}, phrase : {""}, place : {"nav"}]
    \cup [len : {80}, phrase : {"log in"}, place : {"salvage"}]

\* the texts of the first <h1> and of <title>; "" where the element is
\* missing or empty
Heads ==
  { [h1 |-> "", title |-> ""],
    [h1 |-> "", title |-> "Page title"],
    [h1 |-> "Heading", title |-> "Page title"] }

RECURSIVE SetsUpTo(_, _)
SetsUpTo(S, n) ==
  IF n = 0 THEN {{}}
  ELSE LET T == SetsUpTo(S, n - 1) IN T \cup { t \cup {x} : t \in T, x \in S }

DocumentsOf(n) ==
  { [paras |-> ps, h1 |-> hd.h1, title |-> hd.title] :
      ps \in SetsUpTo(Paragraphs, n), hd \in Heads }

Documents == DocumentsOf(MaxParas)

EmptyDocument == [paras |-> {}, h1 |-> "", title |-> ""]

\* a page, and the page with a paywall marker on an element without text
PlainPage == Str(<<"p">>)
PaywalledPage == Str(<<"p", "class=\"paywall\"">>)

\* the html arguments: three that are not a usable string, and a page
HtmlArguments == {Null, Obj, EmptyString, PlainPage}

\* the url argument
ArticleUrl == [host |-> "www.nytimes.com"]

\* a || b on strings
Or(a, b) == IF a # "" THEN a ELSE b

\* a || b on numbers
OrNumber(a, b) == IF a # 0 THEN a ELSE b

\* ContentProcessor.hasPaywall, with the indicator list CookieService has
ContentProcessor_hasPaywall(v) ==
  IF ~Truthy(v) \/ ~IsString(v) THEN FALSE ELSE hasPaywallMarker(v)

\* document.querySelectorAll('p'), in document order
RECURSIVE QueryAll(_)
QueryAll(ps) ==
  IF ps = {} THEN <<>>
  ELSE LET p == CHOOSE p \in ps : TRUE IN <<p>> \o QueryAll(ps \ {p})

\* Array.prototype.filter: the elements of ps that are in keep, in order
RECURSIVE SelectParas(_, _)
SelectParas(ps, keep) ==
  IF ps = <<>> THEN <<>>
  ELSE IF Head(ps) \in keep THEN <<Head(ps)>> \o SelectParas(Tail(ps), keep)
  ELSE SelectParas(Tail(ps), keep)

RECURSIVE SumLen(_)
SumLen(ps) == IF ps = <<>> THEN 0 ELSE Head(ps).len + SumLen(Tail(ps))

Text(ps, joiner, trailing) == [paras |-> ps, joiner |-> joiner, trailing |-> trailing]
NoText == Text(<<>>, 0, 0)

\* text.length
TextLength(t) ==
  IF t.paras = <<>> THEN 0
  ELSE SumLen(t.paras) + t.joiner * (Len(t.paras) - 1) + t.trailing

\* text.trim(), of a text whose paragraphs were trimmed one by one
trim(t) == [t EXCEPT !.trailing = 0]

\* article.textContent as a text: one block of n characters
RawText(n) ==
  IF n = 0 THEN NoText
  ELSE Text(<<[len |-> n, phrase |-> "", place |-> "readability"]>>, 0, 0)

\* what reader.parse() can return: null, or an article with its title, the
\* number of characters of its textContent, and its length, which Readability
\* sets to textContent.length
NoArticle == [parsed |-> FALSE, textContent |-> 0, title |-> "", length |-> 0]
ReadabilityOutputs ==
  {NoArticle} \cup
  { [parsed |-> TRUE, textContent |-> n, title |-> t, length |-> n] :
      n \in {0, minContentLength - 1, minContentLength, 600},
      t \in {"", "Structured title"} }

\* what a tier hands back: null, or a record
NoResult == [found |-> FALSE, title |-> "", text |-> NoText, length |-> 0]
Result(title, text, length) ==
  [found |-> TRUE, title |-> title, text |-> text, length |-> length]

InArticle(p) == p.place = "article"

\* inside an element that one of contentSelectors matches
InContent(p) == p.place \in {"article", "salvage"}

\* the title of the page itself: the first h1, else the title element
PageTitle(d) == Or(d.h1, d.title)

\* fallbackTitle of extractWithFallback
fallbackTitle(to) == IF to.host # "" THEN to.host ELSE "Untitled"

\* extractWithFallback
extractWithFallback(d, to) ==
  LET all == QueryAll(d.paras)
      el == SelectParas(all, { p \in d.paras : InArticle(p) })
      container == Len(el) > 2 \/ SumLen(el) > 200
      pageWide == { p \in d.paras : p.len > 50 /\ p.phrase \notin {"subscribe", "cookie"} }
      inside == { p \in d.paras : InArticle(p) /\ p.len > 30 /\ p.phrase # "subscribe" }
      paras == SelectParas(all, inside)
      text == IF ~container THEN Text(SelectParas(all, pageWide), 2, 0)
              ELSE IF paras # <<>> THEN Text(paras, 2, 0)
              ELSE IF SumLen(el) > 100 THEN Text(el, 0, 0)
              ELSE NoText
  IN IF TextLength(text) = 0 \/ TextLength(text) < 50 THEN NoResult
     ELSE Result(Or(PageTitle(d), fallbackTitle(to)), text, TextLength(text))

\* faulty variant: the length is taken before the text is trimmed
AggressiveResult_Untrimmed(title, allText) ==
  Result(title, trim(allText), TextLength(allText))

\* the record extractAggressively returns
AggressiveResult(title, allText) ==
  Result(title, trim(allText), TextLength(trim(allText)))

\* extractAggressively
extractAggressively(d) ==
  LET all == QueryAll(d.paras)
      selected == { p \in d.paras : /\ InContent(p)
                                     /\ p.len > 50
                                     /\ p.phrase \notin {"subscribe", "cookie"} }
      loose == { p \in d.paras : /\ p.len > 50
                                  /\ p.phrase \notin {"subscribe", "cookie", "log in"}
                                  /\ p.place # "nav" }
      first == SelectParas(all, selected)
      allText == IF TextLength(Text(first, 2, 2)) < 200
                 THEN Text(first \o SelectParas(all, loose), 2, 2)
                 ELSE Text(first, 2, 2)
  IN IF TextLength(allText) < shared.minContentLength THEN NoResult
     ELSE AggressiveResult(Or(PageTitle(d), "Untitled"), allText)

\* faulty variant: only paragraphs longer than 80 characters are kept
anyParas_Over80(d) ==
  Text(SelectParas(QueryAll(d.paras), { p \in d.paras : p.len > 80 }), 2, 0)

\* the last resort: every paragraph longer than 50 characters
anyParas(d) ==
  Text(SelectParas(QueryAll(d.paras), { p \in d.paras : p.len > 50 }), 2, 0)

\* faulty variant: an article of exactly the minimum length is turned down
AcceptsArticle_Strict(a) ==
  a.parsed /\ a.textContent # 0 /\ a.textContent > shared.minContentLength

\* the negation of the test that sends the call to the fallback tiers
AcceptsArticle(a) ==
  a.parsed /\ a.textContent # 0 /\ ~(a.textContent < shared.minContentLength)

\* faulty variant: a salvage of exactly the minimum length is taken
AcceptsSalvage_AtLeast(r) ==
  r.found /\ ~(TextLength(r.text) < shared.minContentLength)

\* aggressiveExtract && aggressiveExtract.text &&
\* aggressiveExtract.text.length > this.minContentLength
AcceptsSalvage(r) ==
  r.found /\ TextLength(r.text) # 0 /\ TextLength(r.text) > shared.minContentLength

\* faulty variant: a short article is never returned
KeepsShortArticle_Never(a) == FALSE

\* "if Readability produced anything, return it even if short"
KeepsShortArticle(a) == a.parsed /\ a.textContent # 0 /\ a.textContent > 0

\* faulty variant: a page with a paywall marker is turned down
AfterPaywallCheck_Blocking(paywalled) ==
  IF paywalled THEN "done" ELSE "readability"

\* const hasPaywall = this.hasPaywall(html): nothing reads the constant, the
\* call goes on to the parse whatever its value
AfterPaywallCheck(paywalled) == "readability"

\* faulty variant: the aggressive tier is left out
AfterRejection_SkipAggressive(tier) ==
  CASE tier = 1 -> "fallback"
    [] tier = 2 -> "paragraphs"
    [] tier = 3 -> "paragraphs"
    [] OTHER    -> "done"

\* where the call goes when the tier's output was not accepted
AfterRejection(tier) ==
  CASE tier = 1 -> "fallback"
    [] tier = 2 -> "aggressive"
    [] tier = 3 -> "paragraphs"
    [] OTHER    -> "done"

NothingExtracted ==
  [kind |-> "pending", tier |-> 0, title |-> "", text |-> NoText, length |-> 0,
   message |-> <<>>]

Returned(tier, r) ==
  [kind |-> "returned", tier |-> tier, title |-> r.title, text |-> r.text,
   length |-> r.length, message |-> <<>>]

Threw(m) ==
  [kind |-> "threw", tier |-> 0, title |-> "", text |-> NoText, length |-> 0,
   message |-> m]

MaxClock == 2           \* the values Date.now() takes while the requests run

\* the singletons as the module constructs them
Constructed(debug) ==
  [minContentLength |-> minContentLength, debugMode |-> debug, debugDir |-> {}]

\* debugService.saveHtml: the file it writes, named after the host, the
\* stage and the clock
DebugFile(u, ms, html, r) ==
  [name |-> <<u.hostname, "before-extraction", ms>>, content |-> html, by |-> r]

\* fs.writeFileSync: a file of the same name is replaced
WriteFile(dir, file) == { f \in dir : f.name # file.name } \cup {file}

\* Date.now() does not go back
Clock(dir) == { ms \in 1..MaxClock : \A f \in dir : f.name[3] <= ms }

Access(r, field, op) == [req |-> r, field |-> field, op |-> op]

NoPrevious == [outcome |-> NothingExtracted, article |-> NoArticle, parsed |-> FALSE]

InitExtract ==
  /\ epc = "validate"
  /\ call = 1
  /\ previous = NoPrevious
  /\ input \in HtmlArguments
  /\ document \in (IF Truthy(input) /\ IsString(input) THEN Documents ELSE {EmptyDocument})
  /\ article = NoArticle
  /\ executed = <<>>
  /\ extracted = NothingExtracted
  /\ OrchestratorIdle /\ HeadlessIdle /\ ArchiveIdle /\ ApiIdle /\ PairIdle

Ran(tier, accepted) == executed' = Append(executed, [tier |-> tier, accepted |-> accepted])

\* faulty variant: only null is turned down
InvalidInput_NullOnly(v) == v = Null

\* !html || typeof html !== 'string'
InvalidInput(v) == ~Truthy(v) \/ ~IsString(v)

\* if (!html || typeof html !== 'string') throw new Error('Invalid HTML input');
\* then, in debug mode, the HTML is saved; then the paywall check.  A call
\* that ended there would end with the paywall error the catch clause still
\* lets through.
Validate ==
  /\ epc = "validate"
  /\ IF InvalidInput(input)
     THEN /\ epc' = "done"
          /\ extracted' = Threw(<<"Invalid HTML input">>)
          /\ UNCHANGED <<shared, accesses>>
     ELSE /\ epc' = AfterPaywallCheck(ContentProcessor_hasPaywall(input))
          /\ extracted' = IF epc' = "done" THEN Threw(<<"Paywall detected">>)
                          ELSE extracted
          /\ IF shared.debugMode
             THEN \E ms \in Clock(shared.debugDir) :
                    /\ shared' = [shared EXCEPT !.debugDir =
                                    WriteFile(@, DebugFile([hostname |-> ArticleUrl.host],
                                                           ms, input, 1))]
                    /\ accesses' = accesses \cup {Access(1, "debugDir", "write")}
             ELSE UNCHANGED <<shared, accesses>>
  /\ UNCHANGED <<call, previous, input, document, article, executed>>
  /\ UNCHANGED <<vars, headlessVars, archiveVars, apiVars, reqs>>

\* what the parse of this call can give: anything in the first call; in the
\* second call, of the same document, what it gave in the first
ParseOutputs ==
  IF call = 1 THEN ReadabilityOutputs
  ELSE IF previous.parsed THEN {previous.article} ELSE {}

ParseThrows == call = 1 \/ ~previous.parsed

\* new JSDOM(html); new Readability(document).parse(), and the test of the
\* article; an exception of either is wrapped by the outer catch
TryReadability ==
  /\ epc = "readability"
  /\ \/ \E a \in ParseOutputs :
        /\ article' = a
        /\ Ran(1, AcceptsArticle(a))
        /\ IF AcceptsArticle(a)
           THEN /\ epc' = "done"
                /\ extracted' = Returned(1, Result(Or(a.title, "Untitled"),
                                                   RawText(a.textContent),
                                                   OrNumber(a.length, 0)))
           ELSE /\ epc' = AfterRejection(1)
                /\ UNCHANGED extracted
     \/ /\ ParseThrows
        /\ epc' = "done"
        /\ extracted' = Threw(<<"Content extraction failed: ", "parse error">>)
        /\ UNCHANGED <<article, executed>>
  /\ UNCHANGED <<call, previous, input, document>>
  /\ UNCHANGED <<vars, headlessVars, archiveVars, apiVars, pairVars>>

\* const fallback = this.extractWithFallback(document, url)
TryFallback ==
  /\ epc = "fallback"
  /\ LET fallback == extractWithFallback(document, ArticleUrl)
         accepted == fallback.found /\ fallback.text # NoText
                     /\ TextLength(fallback.text) > 0
     IN /\ Ran(2, accepted)
        /\ IF accepted
           THEN /\ epc' = "done"
                /\ extracted' = Returned(2, fallback)
           ELSE /\ epc' = AfterRejection(2)
                /\ UNCHANGED extracted
  /\ UNCHANGED <<call, previous, input, document, article>>
  /\ UNCHANGED <<vars, headlessVars, archiveVars, apiVars, pairVars>>

\* const aggressiveExtract = this.extractAggressively(document, url); when it
\* is not accepted, a non-empty Readability text is returned, short as it is
TryAggressive ==
  /\ epc = "aggressive"
  /\ LET aggressiveExtract == extractAggressively(document)
         accepted == AcceptsSalvage(aggressiveExtract)
     IN /\ Ran(3, accepted)
        /\ IF accepted
           THEN /\ epc' = "done"
                /\ extracted' = Returned(3, aggressiveExtract)
           ELSE IF KeepsShortArticle(article)
           THEN /\ epc' = "done"
                /\ extracted' =
                     Returned(1, Result(Or(article.title, "Untitled"),
                                        RawText(article.textContent),
                                        OrNumber(article.length, article.textContent)))
           ELSE /\ epc' = AfterRejection(3)
                /\ UNCHANGED extracted
  /\ UNCHANGED <<call, previous, input, document, article>>
  /\ UNCHANGED <<vars, headlessVars, archiveVars, apiVars, pairVars>>

\* const anyParas = ...; return them, or throw 'Failed to extract meaningful
\* content'
TryParagraphs ==
  /\ epc = "paragraphs"
  /\ LET text == anyParas(document)
         accepted == Len(text.paras) > 0
     IN /\ Ran(4, accepted)
        /\ epc' = "done"
        /\ extracted' =
             IF accepted
             THEN Returned(4, Result(Or(PageTitle(document), "Untitled"),
                                     text, TextLength(text)))
             ELSE Threw(<<"Failed to extract meaningful content">>)
  /\ UNCHANGED <<call, previous, input, document, article>>
  /\ UNCHANGED <<vars, headlessVars, archiveVars, apiVars, pairVars>>

NextExtract ==
  \/ Validate
  \/ TryReadability
  \/ TryFallback
  \/ TryAggressive
  \/ TryParagraphs

SpecExtract == InitExtract /\ [][NextExtract]_allVars

\* ------------------------------ ContentProcessor, configured and called
\* setMinContentLength is called on a processor as constructed, in debug
\* mode or not, and then extractContent.
MinLengths == {0 - 1, 0, 100}

InitProcessor ==
  /\ epc = "configure"
  /\ call = 1
  /\ previous = NoPrevious
  /\ input \in HtmlArguments
  /\ document \in (IF Truthy(input) /\ IsString(input) THEN DocumentsOf(MaxTwinParas)
                   ELSE {EmptyDocument})
  /\ article = NoArticle
  /\ executed = <<>>
  /\ extracted = NothingExtracted
  /\ reqs = <<>>
  /\ \E debug \in BOOLEAN : shared = Constructed(debug)
  /\ accesses = {}
  /\ OrchestratorIdle /\ HeadlessIdle /\ ArchiveIdle /\ ApiIdle

\* setMinContentLength(length): a negative length throws and leaves the
\* field as it was
setMinContentLength ==
  /\ epc = "configure"
  /\ \E length \in MinLengths :
       shared' = IF length < 0 THEN shared
                 ELSE [shared EXCEPT !.minContentLength = length]
  /\ epc' = "validate"
  /\ UNCHANGED <<call, previous, input, document, article, executed, extracted>>
  /\ UNCHANGED <<vars, headlessVars, archiveVars, apiVars, reqs, accesses>>

NextProcessor ==
  \/ setMinContentLength
  \/ NextExtract

SpecProcessor == InitProcessor /\ [][NextProcessor]_allVars

\* --------------------------------- ContentProcessor, the same page twice
\* extractContent is called on a page and then on the page that differs from
\* it in the paywall marker alone: same DOM paragraphs and heads, same output
\* of Readability.
InitExtractTwice ==
  /\ epc = "validate"
  /\ call = 1
  /\ previous = NoPrevious
  /\ input \in {PlainPage, PaywalledPage}
  /\ document \in DocumentsOf(MaxTwinParas)
  /\ article = NoArticle
  /\ executed = <<>>
  /\ extracted = NothingExtracted
  /\ OrchestratorIdle /\ HeadlessIdle /\ ArchiveIdle /\ ApiIdle /\ PairIdle

\* the page with the paywall marker taken away or put in
Twin(v) == IF v = PlainPage THEN PaywalledPage ELSE PlainPage

\* the second call starts when the first has ended
Recall ==
  /\ epc = "done"
  /\ call = 1
  /\ call' = 2
  /\ previous' = [outcome |-> extracted, article |-> article, parsed |-> executed # <<>>]
  /\ input' = Twin(input)
  /\ epc' = "validate"
  /\ article' = NoArticle
  /\ executed' = <<>>
  /\ extracted' = NothingExtracted
  /\ UNCHANGED document
  /\ UNCHANGED <<vars, headlessVars, archiveVars, apiVars, pairVars>>

NextExtractTwice ==
  \/ NextExtract
  \/ Recall

SpecExtractTwice == InitExtractTwice /\ [][NextExtractTwice]_allVars

\* ------------------------------------------------------ POST /api/fetch
\* One request.  req.body.url is what the handler tests of it: whether it is
\* truthy, whether it is a string, whether new URL() parses it, and the
\* protocol and host name of the parsed URL.  fetchArticle is the
\* orchestration above; extractContent settles in one step with one of the
\* outcomes the extraction can have.
Url(protocol, hostname) ==
  [truthy |-> TRUE, string |-> TRUE, parses |-> TRUE, protocol |-> protocol,
   hostname |-> hostname]

Urls ==
  { NoUrl,
    [NoUrl EXCEPT !.string = TRUE],                   \* ''
    [NoUrl EXCEPT !.truthy = TRUE],                   \* an object
    [NoUrl EXCEPT !.truthy = TRUE, !.string = TRUE],  \* 'not a url'
    Url("ftp:", "www.nytimes.com"),
    Url("https:", "www.nytimes.com"),
    Url("http:", "www.wsj.com"),
    Url("https:", "nytimes.com.wsj.com"),
    Url("https:", "example.com") }

\* faulty variant: any URL that parses is taken
isValidUrl_AnyProtocol(u) ==
  IF ~u.truthy \/ ~u.string THEN FALSE
  ELSE IF ~u.parses THEN FALSE
  ELSE TRUE

isValidUrl(u) ==
  IF ~u.truthy \/ ~u.string THEN FALSE
  ELSE IF ~u.parses THEN FALSE
  ELSE u.protocol = "http:" \/ u.protocol = "https:"

\* null is ""
getDomain(u) == IF ~isValidUrl(u) THEN "" ELSE u.hostname

\* domain.includes(needle), for the host names of Urls
DomainIncludes(domain, needle) ==
  \/ domain = "www.nytimes.com" /\ needle = "nytimes.com"
  \/ domain = "www.wsj.com" /\ needle = "wsj.com"
  \/ domain = "nytimes.com.wsj.com" /\ needle \in {"nytimes.com", "wsj.com"}

isNYTimes(u) == getDomain(u) # "" /\ DomainIncludes(getDomain(u), "nytimes.com")

isWSJ(u) == getDomain(u) # "" /\ DomainIncludes(getDomain(u), "wsj.com")

\* res.status(status).json({ success: false, error, code })
Failure(status, code, error) ==
  [status |-> status, success |-> FALSE, code |-> code, error |-> error,
   method |-> "", content |-> NoExtraction]

\* faulty variant: a failed retrieval is answered as a success
FetchFailed_Ok(s, message) ==
  [status |-> 200, success |-> TRUE, code |-> "", error |-> <<>>,
   method |-> "", content |-> NoExtraction]

\* the answer to a fetchArticle that threw
FetchFailed(s, message) ==
  Failure(500, "FETCH_FAILED",
          IF message # <<>> THEN message
          ELSE IF s = "nyt" THEN <<"Failed to fetch NYT article">>
          ELSE <<"Failed to fetch WSJ article">>)

\* the answer to an extractContent that threw
ExtractionFailed(message) ==
  Failure(500,
          IF \E k \in DOMAIN message : message[k] = "Paywall detected"
          THEN "PAYWALL_DETECTED" ELSE "EXTRACTION_FAILED",
          IF message # <<>> THEN message ELSE <<"Failed to extract article content">>)

\* res.json({ success: true, method, content, metadata })
Success(m, content) ==
  [status |-> 200, success |-> TRUE, code |-> "", error |-> <<>>,
   method |-> m, content |-> content]

\* method = 'cookie-clearing' / method = 'archive'
MethodLabel(s) == IF s = "nyt" THEN "cookie-clearing" ELSE "archive"

\* faulty variant: the WSJ test is made first
ServiceFor_WSJFirst(u) == IF isWSJ(u) THEN "wsj" ELSE "nyt"

\* if (isNYTimes(url)) ... else if (isWSJ(url)) ...
ServiceFor(u) == IF isNYTimes(u) THEN "nyt" ELSE "wsj"

\* what extractContent can end with on a page
ExtractionOutcomes ==
  { Returned(1, Result("Structured title", RawText(600), 600)),
    Returned(4, Result("Untitled", Text(<<[len |-> 80, phrase |-> "", place |-> "page"]>>, 2, 0), 80)),
    Threw(<<"Failed to extract meaningful content">>),
    Threw(<<"Content extraction failed: ", "parse error">>) }

InitApi ==
  /\ url \in Urls
  /\ rpc = "received"
  /\ method = ""
  /\ response = NoResponse
  /\ invoked = <<>>
  /\ sent = <<>>
  /\ OrchestratorIdle /\ HeadlessIdle /\ ArchiveIdle /\ ExtractIdle /\ PairIdle

\* the handler up to its first await: the validations, the choice of the
\* service, and the call of its fetchArticle
Receive ==
  /\ rpc = "received"
  /\ IF ~url.truthy
     THEN /\ response' = Failure(400, "MISSING_URL", <<"URL is required">>)
          /\ sent' = Append(sent, response')
          /\ rpc' = "responded"
          /\ UNCHANGED <<method, invoked, site, pc>>
     ELSE IF ~isValidUrl(url)
     THEN /\ response' = Failure(400, "INVALID_URL", <<"Invalid URL format">>)
          /\ sent' = Append(sent, response')
          /\ rpc' = "responded"
          /\ UNCHANGED <<method, invoked, site, pc>>
     ELSE IF isNYTimes(url) \/ isWSJ(url)
     THEN /\ site' = ServiceFor(url)
          /\ method' = MethodLabel(site')
          /\ invoked' = Append(invoked, <<site', "fetchArticle">>)
          /\ pc' = "loop"
          /\ rpc' = "fetching"
          /\ UNCHANGED <<response, sent>>
     ELSE /\ method' = "unknown"
          /\ response' = Failure(400, "UNSUPPORTED_SITE",
                                 <<"Unsupported site. Currently supports NYT and WSJ only.">>)
          /\ sent' = Append(sent, response')
          /\ rpc' = "responded"
          /\ UNCHANGED <<invoked, site, pc>>
  /\ UNCHANGED <<url, i, lastError, result, thrown, attempt, timestampsToTry,
                 lastYield, started, inflight, failed, occurred, recorded,
                 onlyEmptyBodies, archiveCall>>
  /\ UNCHANGED <<headlessVars, archiveVars, extractVars, pairVars>>

\* html = await ...fetchArticle(url) settles: the catch answers, or the
\* handler goes on to call extractContent(html, url)
FetchSettles ==
  /\ rpc = "fetching"
  /\ pc \in {"returned", "thrown"}
  /\ IF pc = "thrown"
     THEN /\ response' = FetchFailed(site, thrown)
          /\ sent' = Append(sent, response')
          /\ rpc' = "responded"
          /\ UNCHANGED <<invoked, epc, input>>
     ELSE /\ invoked' = Append(invoked, <<"contentProcessor", "extractContent">>)
          /\ input' = result
          /\ epc' = "validate"
          /\ rpc' = "extracting"
          /\ UNCHANGED <<response, sent>>
  /\ UNCHANGED <<url, method>>
  /\ UNCHANGED <<document, article, executed, extracted, call, previous>>
  /\ UNCHANGED <<vars, headlessVars, archiveVars, pairVars>>

\* content = await contentProcessor.extractContent(html, url) settles
ExtractSettles ==
  /\ rpc = "extracting"
  /\ \E outcome \in (IF InvalidInput(input)
                     THEN {Threw(<<"Invalid HTML input">>)}
                     ELSE ExtractionOutcomes) :
       /\ extracted' = outcome
       /\ response' = IF outcome.kind = "threw"
                      THEN ExtractionFailed(outcome.message)
                      ELSE Success(method, outcome)
  /\ sent' = Append(sent, response')
  /\ epc' = "done"
  /\ rpc' = "responded"
  /\ UNCHANGED <<url, method, invoked>>
  /\ UNCHANGED <<input, document, article, executed, call, previous>>
  /\ UNCHANGED <<vars, headlessVars, archiveVars, pairVars>>

NextApi ==
  \/ Receive
  \/ Next
  \/ FetchSettles
  \/ ExtractSettles

SpecApi == InitApi /\ [][NextApi]_allVars

\* ------------------------------------- POST /api/fetch, two requests
\* Two activations of the handler in one process, on the same singletons.
\* An activation runs from one await to the next without interruption:
\* up to the call of fetchArticle; from the settling of fetchArticle through
\* the body of extractContent, which has no await of its own; and from the
\* settling of extractContent to the answer.  What fetchArticle settles with
\* and what Readability makes of the page are given with the request; the
\* page has no paragraphs for the later tiers to find.
RequestIds == {1, 2}

PairUrls ==
  { NoUrl, Url("https:", "www.nytimes.com"), Url("http:", "www.wsj.com"),
    Url("https:", "example.com") }

FetchAnswers ==
  { Resolved(Str(<<"article">>)),
    Rejected(Error(<<"fetch failed: ", "All methods failed">>)) }

PageArticles ==
  { a \in ReadabilityOutputs : a.parsed /\ a.title # "" /\ a.textContent # minContentLength }

Arrived(u, f, a) ==
  [pc |-> "received", url |-> u, fetch |-> f, page |-> a, html |-> Null,
   content |-> NothingExtracted, response |-> NoResponse]

\* extractContent on a page without paragraphs, with the threshold as the
\* singleton holds it when the call runs
ExtractWith(a, threshold) ==
  IF a.parsed /\ a.textContent # 0 /\ ~(a.textContent < threshold)
  THEN Returned(1, Result(Or(a.title, "Untitled"), RawText(a.textContent),
                          OrNumber(a.length, 0)))
  ELSE IF KeepsShortArticle(a)
  THEN Returned(1, Result(Or(a.title, "Untitled"), RawText(a.textContent),
                          OrNumber(a.length, a.textContent)))
  ELSE Threw(<<"Failed to extract meaningful content">>)

InitPair ==
  /\ reqs \in [RequestIds -> { Arrived(u, f, a) : u \in PairUrls, f \in FetchAnswers,
                                                  a \in PageArticles }]
  /\ \E debug \in BOOLEAN : shared = Constructed(debug)
  /\ accesses = {}
  /\ OrchestratorIdle /\ HeadlessIdle /\ ArchiveIdle /\ ExtractIdle /\ ApiIdle

\* the handler up to its first await
PairReceive(r) ==
  /\ reqs[r].pc = "received"
  /\ LET u == reqs[r].url IN
       reqs' = [reqs EXCEPT ![r] =
         IF ~u.truthy
         THEN [@ EXCEPT !.pc = "responded",
                        !.response = Failure(400, "MISSING_URL", <<"URL is required">>)]
         ELSE IF ~isValidUrl(u)
         THEN [@ EXCEPT !.pc = "responded",
                        !.response = Failure(400, "INVALID_URL", <<"Invalid URL format">>)]
         ELSE IF isNYTimes(u) \/ isWSJ(u)
         THEN [@ EXCEPT !.pc = "fetching"]
         ELSE [@ EXCEPT !.pc = "responded",
                        !.response = Failure(400, "UNSUPPORTED_SITE",
                                             <<"Unsupported site. Currently supports NYT and WSJ only.">>)]]
  /\ UNCHANGED <<shared, accesses>>
  /\ UNCHANGED <<vars, headlessVars, archiveVars, extractVars, apiVars>>

\* fetchArticle settles; on HTML the handler calls extractContent, whose body
\* saves the HTML in debug mode and extracts with this.minContentLength
PairFetchSettles(r) ==
  /\ reqs[r].pc = "fetching"
  /\ LET u == reqs[r].url
         f == reqs[r].fetch
         s == IF isNYTimes(u) THEN "nyt" ELSE "wsj"
     IN IF ~f.ok
        THEN /\ reqs' = [reqs EXCEPT ![r].pc = "responded",
                                     ![r].response = FetchFailed(s, f.error.message)]
             /\ UNCHANGED <<shared, accesses>>
        ELSE /\ reqs' = [reqs EXCEPT
                           ![r].pc = "extracting",
                           ![r].html = f.html,
                           ![r].content = ExtractWith(reqs[r].page, shared.minContentLength)]
             /\ IF shared.debugMode
                THEN \E ms \in Clock(shared.debugDir) :
                       /\ shared' = [shared EXCEPT !.debugDir =
                                       WriteFile(@, DebugFile(u, ms, f.html, r))]
                       /\ accesses' = accesses \cup
                            { Access(r, "debugMode", "read"),
                              Access(r, "debugDir", "write"),
                              Access(r, "minContentLength", "read") }
                ELSE /\ UNCHANGED shared
                     /\ accesses' = accesses \cup
                          { Access(r, "debugMode", "read"),
                            Access(r, "minContentLength", "read") }
  /\ UNCHANGED <<vars, headlessVars, archiveVars, extractVars, apiVars>>

\* extractContent settles: the answer is sent
PairRespond(r) ==
  /\ reqs[r].pc = "extracting"
  /\ LET u == reqs[r].url
         s == IF isNYTimes(u) THEN "nyt" ELSE "wsj"
         content == reqs[r].content
     IN reqs' = [reqs EXCEPT
                   ![r].pc = "responded",
                   ![r].response = IF content.kind = "threw"
                                   THEN ExtractionFailed(content.message)
                                   ELSE Success(MethodLabel(s), content)]
  /\ UNCHANGED <<shared, accesses>>
  /\ UNCHANGED <<vars, headlessVars, archiveVars, extractVars, apiVars>>

NextPair ==
  \E r \in RequestIds :
    \/ PairReceive(r)
    \/ PairFetchSettles(r)
    \/ PairRespond(r)

SpecPair == InitPair /\ [][NextPair]_allVars

\* ------------------------------------------------------------ properties
IsPrefix(a, b) == Len(a) <= Len(b) /\ SubSeq(b, 1, Len(a)) = a

Last(q) == q[Len(q)]

Prefix(s) == IF s = "nyt" THEN "NYT fetch failed: " ELSE "WSJ fetch failed: "

\* the order of the strategies each service is configured with
ConfiguredOrder ==
  IF site = "nyt" THEN <<"cookie-clearing", "search-engine", "headless">>
  ELSE <<"cookie-clearing", "search-engine", "headless", "archive">>

\* clean HTML: a non-empty string with no bot-block and no paywall marker
Clean(html) ==
  /\ IsString(html)
  /\ html.chunks # <<>>
  /\ ~hasBotMarker(html)
  /\ ~hasPaywallMarker(html)

\* the strategy that settled last yielded a value (it did not throw)
Yielded(names) == lastYield.ok /\ lastYield.name \in names

\* the value of the strategy that settled last was not returned: the strategy
\* is the last one recorded as failed and the call went on or ended in failure
RejectedLast ==
  /\ pc # "returned"
  /\ failed # <<>>
  /\ Last(failed) = lastYield.name

\* C1: when the first strategy (cookie-clearing) yields clean HTML, that HTML
\* is returned and no later strategy is ever invoked in the call.
ShortCircuit ==
  (Yielded({"cookie-clearing"}) /\ Clean(lastYield.html))
    => /\ pc = "returned"
       /\ result = lastYield.html
       /\ started = <<"cookie-clearing">>
       /\ inflight = {}

ShortCircuitWitness ==
  /\ pc = "returned"
  /\ Yielded({"cookie-clearing"})
  /\ Clean(lastYield.html)

\* C2: the strategies are started in the configured order, each at most once,
\* a strategy is started only after every earlier one has failed or been
\* rejected, and at most one strategy is in flight at any time.
FixedSequentialOrder ==
  /\ IsPrefix(started, ConfiguredOrder)
  /\ IsPrefix(failed, started)
  /\ Len(failed) >= Len(started) - 1
  /\ Cardinality(inflight) <= 1
  /\ inflight # {} => (started # <<>> /\ inflight = {Last(started)}
                       /\ Len(failed) = Len(started) - 1)

FixedSequentialOrderWitness ==
  /\ site = "wsj"
  /\ started = <<"cookie-clearing", "search-engine", "headless", "archive">>
  /\ failed = <<"cookie-clearing", "search-engine", "headless">>
  /\ inflight = {"archive"}

\* C3: when every strategy has failed or been rejected, the terminal error
\* carries the message of the failure that occurred last, whatever the
\* earlier failures were.
TerminalAggregation ==
  pc = "thrown"
    => /\ occurred # <<>>
       /\ thrown = <<Prefix(site)>> \o Last(occurred)
       /\ Len(failed) = Len(ConfiguredOrder)

TerminalAggregationWitness ==
  /\ pc = "thrown"
  /\ site = "nyt"
  /\ occurred = << <<"Network error: ", "socket hang up">>,
                   <<"Paywall detected (method: ", "search-engine", ")">>,
                   <<"Headless fetch failed: ", "Navigation timeout exceeded">> >>
  /\ thrown = <<"NYT fetch failed: ", "Headless fetch failed: ", "Navigation timeout exceeded">>

\* C4 as stated: HTML from cookie-clearing or search-engine for which
\* hasPaywall is true is not returned, the failure recorded for the strategy
\* is 'Paywall detected', and the call continues with the next strategy.
NonLenientRecordsPaywall ==
  (Yielded({"cookie-clearing", "search-engine"}) /\ hasPaywall(lastYield.html))
    => /\ RejectedLast
       /\ pc # "thrown"
       /\ lastError.message = <<"Paywall detected (method: ", lastYield.name, ")">>

\* C4 amended: HTML from cookie-clearing or search-engine for which hasPaywall
\* is true is not returned and the call continues with the next strategy; the
\* failure recorded is 'JS rendering required' when the HTML includes
\* 'please enable js' and 'Paywall detected' otherwise.
NonLenientRejectsPaywall ==
  (Yielded({"cookie-clearing", "search-engine"}) /\ hasPaywall(lastYield.html))
    => /\ RejectedLast
       /\ pc # "thrown"
       /\ lastError.message =
            IF includes(toLowerCase(lastYield.html), "please enable js")
            THEN <<"JS rendering required (method: ", lastYield.name, ")">>
            ELSE <<"Paywall detected (method: ", lastYield.name, ")">>

NonLenientRejectsPaywallWitness ==
  /\ Yielded({"search-engine"})
  /\ hasPaywallMarker(lastYield.html)
  /\ includes(lastYield.html, "article")
  /\ lastError.message = <<"Paywall detected (method: ", "search-engine", ")">>
  /\ inflight = {"headless"}

\* real article paragraphs next to a paywall indicator
PaywallBesideArticle(html) ==
  /\ ~isEmpty(html)
  /\ hasPaywallMarker(html)
  /\ includes(html, "article")

\* C5 as stated: non-empty HTML with a paywall indicator beside real article
\* paragraphs, yielded by the archive or the headless strategy, is returned.
LenientAcceptsPaywall ==
  (Yielded({"headless", "archive"}) /\ PaywallBesideArticle(lastYield.html))
    => (pc = "returned" /\ result = lastYield.html)

\* C5 amended: such HTML is returned when it comes from the headless
\* strategy, and when it comes from the archive strategy and does not include
\* 'please enable js'.
LenientAcceptsPaywallUnlessJsBlock ==
  (/\ Yielded({"headless", "archive"})
   /\ PaywallBesideArticle(lastYield.html)
   /\ (lastYield.name = "archive"
         => ~includes(toLowerCase(lastYield.html), "please enable js")))
    => (pc = "returned" /\ result = lastYield.html)

LenientAcceptsPaywallWitness ==
  /\ pc = "returned"
  /\ Yielded({"archive"})
  /\ PaywallBesideArticle(lastYield.html)
  /\ result = lastYield.html

\* C6: HTML with a bot-protection marker obtained by cookie-clearing,
\* search-engine or archive is never returned by fetchArticle.
BotBlockedRejected ==
  (Yielded({"cookie-clearing", "search-engine", "archive"})
     /\ hasBotMarker(lastYield.html))
    => pc # "returned"

\* C7: a non-empty string yielded by the headless strategy is returned as is,
\* whatever markers it contains, and no later strategy is invoked.
RenderedAlwaysAccepted ==
  (Yielded({"headless"}) /\ ~isEmpty(lastYield.html))
    => /\ pc = "returned"
       /\ result = lastYield.html
       /\ Last(started) = "headless"
       /\ inflight = {}

RenderedAlwaysAcceptedWitness ==
  /\ pc = "returned"
  /\ Yielded({"headless"})
  /\ hasBotMarker(lastYield.html)
  /\ hasPaywallMarker(lastYield.html)
  /\ result = lastYield.html

\* C8 as stated: when every collaborator answered with the empty string, the
\* terminal failure is 'Empty HTML received', for the NYT and the WSJ list.
AllEmptyReportsEmpty ==
  (pc = "thrown" /\ onlyEmptyBodies)
    => thrown = <<Prefix(site), "Empty HTML received (method: ", Last(ConfiguredOrder), ")">>

\* C8 amended: when every collaborator answered with the empty string, the
\* terminal failure is 'Empty HTML received' for the NYT list and 'Article
\* not available in archive' for the WSJ list.
AllEmptyTerminal ==
  (pc = "thrown" /\ onlyEmptyBodies)
    => thrown = IF site = "nyt"
                THEN <<"NYT fetch failed: ", "Empty HTML received (method: ", "headless", ")">>
                ELSE <<"WSJ fetch failed: ", "Article not available in archive">>

AllEmptyTerminalWitness ==
  /\ pc = "thrown"
  /\ onlyEmptyBodies
  /\ site = "nyt"
  /\ Len(occurred) = 3

\* C9: when HTML with both a bot-challenge marker and a paywall marker is
\* rejected, the failure recorded is not 'Paywall detected'.
BotBlockPrecedence ==
  (/\ lastYield.ok
   /\ hasBotMarker(lastYield.html)
   /\ hasPaywallMarker(lastYield.html)
   /\ RejectedLast)
    => lastError.message # <<"Paywall detected (method: ", lastYield.name, ")">>

\* C10: every failure that occurs during the call is assigned to lastError
\* when it occurs.
NothingSwallowed == occurred = recorded

\* ------------------------------------------- properties of HeadlessService
Ended == hpc = "done"

Challenged == revision = 1 /\ Len(contents) >= 1 /\ InitialBotCheck(contents[1])

Occurrences(q, x) == Cardinality({ k \in DOMAIN q : q[k] = x })

\* C11: when a call of fetchRenderedHtml that launched a browser has returned
\* or thrown, browser.close() has been invoked on that browser, once; close
\* is never invoked without a launched browser.
BrowserClosedOnExit ==
  /\ (Ended /\ browser = "launched") => closeCalls = 1
  /\ closeCalls <= 1
  /\ closeCalls = 1 => browser = "launched"

\* a call that launched, failed at a later await, and has thrown after close
BrowserClosedOnExitWitness ==
  /\ Ended
  /\ browser = "launched"
  /\ pending.kind = "throw"
  /\ closeCalls = 1

\* C12: every call of fetchRenderedHtml eventually returns or throws, also
\* on a page whose scrollHeight keeps growing while it is scrolled.
CallEnds == <>Ended

\* C13: a bot challenge in the first DOM sample is one detour: no position of
\* the call is entered twice, the DOM is sampled again once, the call goes on
\* from the second sample whether or not it still shows the challenge, and a
\* call that returns gives the last DOM sample.
ChallengeSingleDetour ==
  /\ \A j, k \in DOMAIN path : path[j] = path[k] => j = k
  /\ Occurrences(path, "recheck") <= 1
  /\ \A k \in DOMAIN path :
       (path[k] = "recheck" /\ Len(contents) >= 2 /\ k < Len(path))
         => path[k + 1] \in {"iframe", "settleDelay"}
  /\ (Challenged /\ Ended /\ pending.kind = "return")
       => /\ Occurrences(path, "recheck") = 1
          /\ Len(contents) = 3
          /\ pending.html = contents[3]
  /\ pending.kind = "throw"
       => pending.message \in
            { WrapHeadlessError(m).message : m \in PageErrors \cup LaunchErrors }

\* a call that still saw the challenge in the second sample and returned
ChallengeSingleDetourWitness ==
  /\ Challenged
  /\ Ended
  /\ pending.kind = "return"
  /\ RecheckBot(contents[2])
  /\ pending.html = contents[3]

\* -------------------------------------------- properties of ArchiveService
Timestamps(q) == [k \in DOMAIN q |-> q[k].timestamp]

Descending(q) == \A j, k \in DOMAIN q : j < k => q[j] >= q[k]

Chronological(q) == \A j, k \in DOMAIN q : j < k => q[j] <= q[k]

OlderThanCutoff == { k \in DOMAIN snapshots : snapshots[k] < CutoffTimestamp }

ListedAges(ages) ==
  /\ Len(snapshots) = Cardinality(ages)
  /\ { snapshots[k] : k \in DOMAIN snapshots } = { MonthOf(a) : a \in ages }

\* every candidate was requested and none had a valid body
AllVisited == apc = "done" /\ archived.kind = "null"

\* C14: with preferOlder the call requests only snapshots strictly older than
\* the cutoff, each listed one at most once, in descending timestamp order:
\* no retained snapshot newer than a requested one is left out, and a call
\* that found no valid body has requested every retained snapshot.
OlderFirstPolicy ==
  preferOlder =>
    /\ \A k \in DOMAIN visited : visited[k].timestamp < CutoffTimestamp
    /\ Descending(Timestamps(visited))
    /\ Len(visited) <= Cardinality(OlderThanCutoff)
    /\ \A k \in OlderThanCutoff :
         (visited # <<>> /\ snapshots[k] > Last(visited).timestamp)
           => \E j \in DOMAIN visited : visited[j].timestamp = snapshots[k]
    /\ AllVisited => Len(visited) = Cardinality(OlderThanCutoff)

\* two retained snapshots requested, the newer of them first, with a snapshot
\* at or after the cutoff in the list
OlderFirstPolicyWitness ==
  /\ preferOlder
  /\ Len(visited) = 2
  /\ visited[1].timestamp > visited[2].timestamp
  /\ \E k \in DOMAIN snapshots : snapshots[k] >= CutoffTimestamp

\* C15, as stated: with snapshots aged 2, 8 and 13 months and the 6-month
\* cutoff, the visit order is [13-month snapshot, 8-month snapshot].
VisitOrderOldestFirst ==
  (preferOlder /\ ListedAges({2, 8, 13}) /\ AllVisited)
    => Timestamps(visited) = <<MonthOf(13), MonthOf(8)>>

\* C15, amended: with snapshots aged 2, 8 and 13 months and the 6-month
\* cutoff, the visit order is [8-month snapshot, 13-month snapshot], and the
\* 2-month snapshot is never requested.
VisitOrderRecentOldFirst ==
  (preferOlder /\ ListedAges({2, 8, 13}))
    => /\ IsPrefix(Timestamps(visited), <<MonthOf(8), MonthOf(13)>>)
       /\ AllVisited => Timestamps(visited) = <<MonthOf(8), MonthOf(13)>>

\* the three snapshots listed, the two retained ones requested without a
\* valid body
VisitOrderRecentOldFirstWitness ==
  /\ preferOlder
  /\ ListedAges({2, 8, 13})
  /\ AllVisited
  /\ Len(visited) = 2

\* C16: with preferOlder, when no listed snapshot is older than the cutoff
\* the call falls back to the full list, newest first.
FallbackToFullList ==
  (preferOlder /\ snapshots # <<>> /\ OlderThanCutoff = {} /\ apc = "done")
    => /\ visited # <<>>
       /\ Descending(Timestamps(visited))
       /\ AllVisited => Len(visited) = Len(snapshots)

\* C17: without preferOlder the call requests the listed snapshots from the
\* last listed to the first, none filtered out, which is reverse
\* chronological order for the chronological list the index gives; it stops
\* at the first valid body and returns that body with the timestamp of the
\* snapshot it was requested for; with no valid body every listed snapshot
\* has been requested.
NewerFirstPolicy ==
  ~preferOlder =>
    /\ Len(visited) <= Len(snapshots)
    /\ \A k \in DOMAIN visited :
         visited[k].timestamp = snapshots[Len(snapshots) - k + 1]
    /\ Chronological(snapshots) => Descending(Timestamps(visited))
    /\ \A k \in DOMAIN visited : visited[k].valid => k = Len(visited)
    /\ (visited # <<>> /\ Last(visited).valid)
         => /\ apc = "done"
            /\ archived.kind = "snapshot"
            /\ archived.html = lastBody
            /\ ValidArchiveBody(archived.html)
            /\ archived.timestamp = Last(visited).timestamp
    /\ archived.kind = "snapshot" => (visited # <<>> /\ Last(visited).valid)
    /\ AllVisited => Len(visited) = Len(snapshots)

\* the newest snapshot had no valid body and the one before it was returned
NewerFirstPolicyWitness ==
  /\ ~preferOlder
  /\ Chronological(snapshots)
  /\ Len(visited) = 2
  /\ visited[1].timestamp > visited[2].timestamp
  /\ archived.kind = "snapshot"
  /\ archived.timestamp = visited[2].timestamp
  /\ \E k \in DOMAIN snapshots : snapshots[k] >= CutoffTimestamp

\* ------------------------------- properties of the archive strategy (WSJ)
\* the index listed no snapshot
NoSnapshotListed == archiveCall.index = "empty"

\* every candidate snapshot was requested and none gave a valid body
NoSnapshotValid ==
  /\ archiveCall.index = "listed"
  /\ archiveCall.visits = archiveCall.candidates
  /\ ~Yielded({"archive"})

\* C18: when the index lists no snapshot, or every candidate snapshot GET
\* fails or gives an invalid body, fetchFromArchive returns null and does not
\* throw, tryArchive throws 'Article not available in archive', and the
\* orchestrator records that message as lastError for the archive strategy.
ArchiveUnavailable ==
  (NoSnapshotListed \/ NoSnapshotValid)
    => /\ archiveCall.returned = "null"
       /\ lastYield = [name |-> "archive", ok |-> FALSE, html |-> Null]
       /\ Last(failed) = "archive"
       /\ lastError = Error(<<"Article not available in archive">>)
       /\ Last(recorded) = <<"Article not available in archive">>
       /\ Last(occurred) = <<"Article not available in archive">>

\* two candidate snapshots were requested and neither gave a valid body
ArchiveUnavailableWitness ==
  /\ NoSnapshotValid
  /\ archiveCall.candidates = 2
  /\ archiveCall.returned = "null"
  /\ pc = "thrown"

\* ------------------------------------------- properties of ContentProcessor
\* C19: the extraction tiers are executed in the order 1, 2, 3, 4, each at
\* most once; a tier is executed only after every earlier tier was executed
\* and not accepted; a tier whose output is accepted is the last one
\* executed and its output is what the call returns.
TiersInOrder ==
  /\ Len(executed) <= 4
  /\ \A k \in DOMAIN executed :
       /\ executed[k].tier = k
       /\ executed[k].accepted
            => /\ k = Len(executed)
               /\ epc = "done"
               /\ extracted.kind = "returned"
               /\ extracted.tier = k

\* the first three tiers were executed and not accepted, the fourth was
TiersInOrderWitness ==
  /\ Len(executed) = 4
  /\ ~executed[1].accepted
  /\ ~executed[2].accepted
  /\ ~executed[3].accepted
  /\ executed[4].accepted
  /\ extracted.tier = 4

\* C20: a call that has ended after tiers 1, 2 and 3 were executed and not
\* accepted has executed tier 4; a Readability text below the threshold is
\* returned only after tier 4 produced nothing.
LastResortAttempted ==
  (epc = "done" /\ Len(executed) >= 3 /\ ~executed[3].accepted)
    => Len(executed) = 4

ReadabilityRejectionWitness ==
  /\ Len(executed) > 1
  /\ article.parsed
  /\ article.textContent = 19

\* C23: a call on valid HTML, once the page was parsed, throws 'Failed to
\* extract meaningful content' exactly when Readability yields no text, the
\* selector fallback yields no text, the aggressive salvage yields no text
\* above the minimum, and the page has no paragraph longer than 50
\* characters.
NothingReadable(a) == ~a.parsed \/ a.textContent = 0

NoLongParagraph(d) == \A p \in d.paras : ~(p.len > 50)

FailsToExtract ==
  extracted = Threw(<<"Failed to extract meaningful content">>)

LastResortWitness ==
  /\ epc = "done"
  /\ Len(executed) = 4
  /\ extracted.kind = "returned"
  /\ ~NoLongParagraph(document)

ShortLengthWitness ==
  /\ epc = "done"
  /\ extracted.kind = "returned"
  /\ Len(executed) = 3
  /\ extracted.tier = 1
  /\ extracted.length = 19

\* C26: the title of a returned record is the structured title of
\* Readability when there is one, else the first h1, else the document
\* title, else the host name of the requested URL; it is never the fixed
\* placeholder when the URL has a host name.
ChainTitle(a, d, to) == Or(Or(Or(a.title, d.h1), d.title), to.host)

TitleFallbackChain ==
  (extracted.kind = "returned" /\ ArticleUrl.host # "")
    => /\ extracted.title = ChainTitle(article, document, ArticleUrl)
       /\ extracted.title # "Untitled"

\* the part of the chain that the selector fallback does follow: heading,
\* document title, host name
FallbackTitleChain ==
  (extracted.kind = "returned" /\ extracted.tier = 2)
    => extracted.title = Or(Or(document.h1, document.title), ArticleUrl.host)

\* ------------------------------------------- properties of POST /api/fetch
Answered(status, code) ==
  /\ response.status = status
  /\ ~response.success
  /\ response.code = code

HttpUrl(u) ==
  u.truthy /\ u.string /\ u.parses /\ u.protocol \in {"http:", "https:"}

\* the host names of Urls that contain nytimes.com or wsj.com
SupportedHosts == {"www.nytimes.com", "www.wsj.com", "nytimes.com.wsj.com"}

NothingInvoked ==
  /\ invoked = <<>>
  /\ pc = "idle"
  /\ started = <<>>
  /\ epc = "idle"

\* C27: a request without url is answered 400 MISSING_URL; one whose url is
\* not a valid http or https URL, 400 INVALID_URL; one whose url is neither
\* a New York Times nor a Wall Street Journal URL, 400 UNSUPPORTED_SITE; in
\* all three cases no fetch service and no extraction is invoked.
RequestValidation ==
  rpc = "responded"
    => /\ ~url.truthy => (Answered(400, "MISSING_URL") /\ NothingInvoked)
       /\ (url.truthy /\ ~HttpUrl(url))
            => (Answered(400, "INVALID_URL") /\ NothingInvoked)
       /\ (HttpUrl(url) /\ url.hostname \notin SupportedHosts)
            => (Answered(400, "UNSUPPORTED_SITE") /\ NothingInvoked)

\* a URL of a supported site with another protocol was turned down
RequestValidationWitness ==
  /\ rpc = "responded"
  /\ url.protocol = "ftp:"
  /\ Answered(400, "INVALID_URL")
  /\ NothingInvoked

MissingUrlWitness ==
  rpc = "responded" /\ url.string /\ ~url.truthy /\ Answered(400, "MISSING_URL")

UnsupportedSiteWitness ==
  rpc = "responded" /\ HttpUrl(url) /\ Answered(400, "UNSUPPORTED_SITE")

\* C28: when fetchArticle throws, the answer is 500 with success false and
\* code FETCH_FAILED, and extractContent is never invoked; when the
\* extraction throws, the answer is 500 with success false; when both
\* succeed, the answer is 200 with success true and the content is what the
\* extraction returned.
ExtractionInvoked ==
  \E k \in DOMAIN invoked : invoked[k] = <<"contentProcessor", "extractContent">>

FailuresAnswered ==
  (rpc = "responded" /\ invoked # <<>>)
    => /\ pc = "thrown"
            => (Answered(500, "FETCH_FAILED") /\ ~ExtractionInvoked /\ epc = "idle")
       /\ (pc = "returned" /\ extracted.kind = "threw")
            => (response.status = 500 /\ ~response.success)
       /\ (pc = "returned" /\ extracted.kind = "returned")
            => /\ response.status = 200
               /\ response.success
               /\ response.content = extracted

\* every strategy of the Wall Street Journal service failed
FailuresAnsweredWitness ==
  /\ rpc = "responded"
  /\ site = "wsj"
  /\ pc = "thrown"
  /\ Len(failed) = Len(Methods("wsj"))
  /\ Answered(500, "FETCH_FAILED")

ExtractionFailedWitness ==
  rpc = "responded" /\ pc = "returned" /\ Answered(500, "EXTRACTION_FAILED")

SuccessWitness ==
  /\ rpc = "responded"
  /\ response.success
  /\ response.content.kind = "returned"
  /\ response.content.tier = 4

\* C29: the method of a successful answer names the strategy whose HTML the
\* orchestration accepted.
MethodNamesStrategy ==
  (rpc = "responded" /\ response.success) => response.method = lastYield.name

\* ------------------------------------------- properties of two requests
\* what the handler answers to a request that runs alone on the singletons
\* as constructed
Alone(r) ==
  LET u == reqs[r].url
      f == reqs[r].fetch
      s == IF u.hostname = "www.nytimes.com" THEN "nyt" ELSE "wsj"
      content == ExtractWith(reqs[r].page, Constructed(shared.debugMode).minContentLength)
  IN IF ~u.truthy THEN Failure(400, "MISSING_URL", <<"URL is required">>)
     ELSE IF u.hostname \notin {"www.nytimes.com", "www.wsj.com"}
     THEN Failure(400, "UNSUPPORTED_SITE", <<"Unsupported site. Currently supports NYT and WSJ only.">>)
     ELSE IF ~f.ok THEN FetchFailed(s, f.error.message)
     ELSE IF content.kind = "threw" THEN ExtractionFailed(content.message)
     ELSE Success(MethodLabel(s), content)

AllResponded == \A r \in RequestIds : reqs[r].pc = "responded"

\* every answer is the answer the request would get alone
AnswersAsAlone ==
  \A r \in RequestIds : reqs[r].pc = "responded" => reqs[r].response = Alone(r)

\* no request reads a field another request wrote
NoForeignRead ==
  \A a, b \in accesses :
    (a.op = "read" /\ b.op = "write" /\ a.field = b.field) => a.req = b.req

\* when both requests are answered the singletons and the debug directory
\* are as they were constructed
NothingSurvives == AllResponded => shared = Constructed(shared.debugMode)

NothingWrittenWithoutDebug ==
  ~shared.debugMode => (shared = Constructed(FALSE) /\ \A a \in accesses : a.op = "read")

\* both requests were extracted, the second between the two steps of the first
InterleavedWitness ==
  /\ AllResponded
  /\ \A r \in RequestIds : reqs[r].response.success
  /\ \E f \in shared.debugDir : f.by = 1
  /\ \E f \in shared.debugDir : f.by = 2

\* ------------------------------------ properties of the strategy verdicts
\* the values the empty verdict is defined for: null, a value that is not a
\* string, a string of length zero
EmptyValue(html) == html = Null \/ ~IsString(html) \/ Length(html) = 0

EmptyFailure(name) == <<"Empty HTML received (method: ", name, ")">>

\* C31: a value that is null, not a string or a zero-length string, yielded
\* by a strategy, is rejected, and the failure recorded for it is the
\* empty-response failure of that strategy.
NonStringCountsAsEmpty ==
  (lastYield.ok /\ EmptyValue(lastYield.html))
    => /\ RejectedLast
       /\ Last(recorded) = EmptyFailure(lastYield.name)

\* the part of it that the code keeps: null and '' are recorded as empty
FalsyCountsAsEmpty ==
  (lastYield.ok /\ ~Truthy(lastYield.html))
    => /\ RejectedLast
       /\ Last(recorded) = EmptyFailure(lastYield.name)

\* C32: one invocation of the headless strategy makes at most one render
\* attempt, and so opens at most one browser session; `attempt` numbers the
\* fetchRenderedHtml call in progress within the invocation.
SingleRenderAttempt == pc = "render" => attempt <= 1

\* the part of it that the code keeps: the strategy of the Times service
\* renders once
SingleRenderAttemptNYT == (pc = "render" /\ site = "nyt") => attempt <= 1

\* ---------------------------------- properties of the fallback tiers' texts
ParasOf(t) == { t.paras[k] : k \in DOMAIN t.paras }

\* the element of the candidate selector qualifies as the container
Qualifies(d) ==
  LET el == { p \in d.paras : InArticle(p) }
  IN Cardinality(el) > 2 \/ SumLen(QueryAll(el)) > 200

\* C33: the text the selector fallback returns is built only from paragraphs
\* of the first candidate selector whose element has more than 2 paragraphs
\* or more than 200 characters of text, and none of its paragraphs matches
\* 'subscribe' or 'cookie'.
FallbackBlockList ==
  (extracted.kind = "returned" /\ extracted.tier = 2)
    => /\ Qualifies(document)
       /\ \A p \in ParasOf(extracted.text) :
            /\ InArticle(p)
            /\ p.phrase \notin {"subscribe", "cookie"}

\* the part of it that the code keeps: a text joined from paragraphs has no
\* paragraph matching 'subscribe', and one collected without a container
\* has none matching 'cookie' either
FallbackFiltersSubscribe ==
  (extracted.kind = "returned" /\ extracted.tier = 2 /\ extracted.text.joiner = 2)
    => \A p \in ParasOf(extracted.text) :
         /\ p.phrase # "subscribe"
         /\ ~Qualifies(document) => p.phrase # "cookie"

\* C34: every paragraph of the text the aggressive salvage returns is longer
\* than 50 characters, contains none of the phrases subscribe, cookie,
\* log in, sign up, and has no nav, footer or paywall-tagged ancestor.
SalvageFilter ==
  (extracted.kind = "returned" /\ extracted.tier = 3)
    => \A p \in ParasOf(extracted.text) :
         /\ p.len > 50
         /\ p.phrase \notin {"subscribe", "cookie", "log in", "sign up"}
         /\ p.place # "nav"

\* the part of it that the code keeps in both passes: the length, and the
\* phrases 'subscribe' and 'cookie'
SalvageFiltersSubscribe ==
  (extracted.kind = "returned" /\ extracted.tier = 3)
    => \A p \in ParasOf(extracted.text) :
         p.len > 50 /\ p.phrase \notin {"subscribe", "cookie"}

\* ------------------------------- properties of the configured processor
\* null, a value that is not a string, the empty string
NotUsableHtml(v) == v = Null \/ ~IsString(v) \/ Length(v) = 0

\* C35: a call whose html is null, not a string or empty throws 'Invalid
\* HTML input' in its first step, before the page is parsed and before any
\* tier runs, and that step leaves the fields of the processor, the debug
\* directory included, as they were.
InvalidInputRejected ==
  [][ (epc = "validate" /\ NotUsableHtml(input))
        => /\ epc' = "done"
           /\ extracted' = Threw(<<"Invalid HTML input">>)
           /\ article' = NoArticle
           /\ executed' = <<>>
           /\ shared' = shared
           /\ accesses' = accesses ]_allVars

\* an empty string was turned down by a processor in debug mode whose
\* threshold had been set to 0, and nothing was saved
InvalidInputRejectedWitness ==
  /\ epc = "done"
  /\ input = EmptyString
  /\ extracted = Threw(<<"Invalid HTML input">>)
  /\ executed = <<>>
  /\ shared = [Constructed(TRUE) EXCEPT !.minContentLength = 0]

\* a usable page was saved by a processor in debug mode
DebugSaveWitness ==
  epc = "done" /\ ~NotUsableHtml(input) /\ shared.debugDir # {}

\* ------------------------------- properties of getAvailableTimestamps
\* the timestamps of the rows after the header row, in the order of the
\* rows; a row without a timestamp has none to give
ListedTimestamps(data) ==
  IF ~data.isArray \/ data.rows = <<>> THEN <<>>
  ELSE SelectSeq(Tail(data.rows), LAMBDA t : t # 0)

Smaller(a, b) == IF a < b THEN a ELSE b

\* C36: getAvailableTimestamps returns the timestamps of the rows after the
\* header row, in their original order and never more than `limit` of them;
\* it returns the empty list when the response is not an array or has only
\* the header row.
AtMostLimitTimestamps ==
  apc = "listed"
    => /\ Len(snapshots) <= query.limit
       /\ snapshots = SubSeq(ListedTimestamps(query.data), 1,
                             Smaller(query.limit, Len(ListedTimestamps(query.data))))
       /\ (~query.data.isArray \/ Len(query.data.rows) <= 1) => snapshots = <<>>

\* the response listed more timestamps than were asked for
AtMostLimitTimestampsWitness ==
  /\ apc = "listed"
  /\ query.limit >= 1
  /\ Len(ListedTimestamps(query.data)) > query.limit
  /\ Len(snapshots) = query.limit
  /\ snapshots[1] = query.data.rows[2]

\* -------------------------- properties of what fetchArticle hands over
\* C37: every value fetchArticle returns, for the NYT and for the WSJ, is a
\* string of at least one character, so the HTML the handler passes to
\* extractContent never makes it throw 'Invalid HTML input'.
ReturnedHtmlUsable ==
  /\ pc = "returned" => IsString(result) /\ Length(result) > 0
  /\ rpc = "extracting" => input = result /\ ~InvalidInput(input)
  /\ extracted # Threw(<<"Invalid HTML input">>)

\* the handler answered with content after fetchArticle had turned down an
\* empty value and returned what a later strategy gave
ReturnedHtmlUsableWitness ==
  /\ rpc = "responded"
  /\ pc = "returned"
  /\ failed # <<>>
  /\ \E k \in 1..Len(recorded) : recorded[k][1] = "Empty HTML received (method: "
  /\ input = result
  /\ extracted.kind = "returned"
  /\ response.success

\* ------------------------------------ properties of the terminal failure
FinalStrategy(s) == IF s = "nyt" THEN "headless" ELSE "archive"

\* C38: when fetchArticle fails terminally, every strategy of the list was
\* attempted exactly once, lastError is set and is the failure recorded for
\* the final strategy (headless for the NYT, archive for the WSJ), and the
\* message thrown carries that failure, never the default 'All methods
\* failed'.
TerminalFailureRecorded ==
  pc = "thrown"
    => /\ started = Methods(site)
       /\ failed = Methods(site)
       /\ inflight = {}
       /\ ~lastError.null
       /\ lastError.message # <<>>
       /\ Len(recorded) = Len(Methods(site))
       /\ Last(recorded) = lastError.message
       /\ Last(occurred) = lastError.message
       /\ lastYield.name = FinalStrategy(site)
       /\ Last(failed) = FinalStrategy(site)
       /\ (lastYield.ok /\ ~ThrowsTypeError(lastYield.html))
            => lastError = RejectionError(FinalStrategy(site), lastYield.html)
       /\ thrown = <<IF site = "nyt" THEN "NYT fetch failed: " ELSE "WSJ fetch failed: ">>
                     \o lastError.message
       /\ \A k \in 1..Len(thrown) : thrown[k] # AllMethodsFailed(site)

\* the WSJ call failed after four different failures, the last one from the
\* archive
TerminalFailureRecordedWitness ==
  /\ pc = "thrown"
  /\ site = "wsj"
  /\ Len(recorded) = 4
  /\ lastYield.name = "archive"
  /\ recorded[1] # recorded[4]
  /\ recorded[3] # recorded[4]

\* ------------------------------------- properties of the returned text
\* C39: every record extractContent returns has a text of at least one
\* character, whichever tier produced it and whatever minimum length the
\* processor was configured with, zero included.
ReturnedTextNonEmpty ==
  extracted.kind = "returned"
    => /\ extracted.text.paras # <<>>
       /\ TextLength(extracted.text) > 0

\* with a minimum length of zero extractAggressively produced a record with
\* an empty text; the call went past it and returned a record with text
ReturnedTextNonEmptyWitness ==
  /\ extracted.kind = "returned"
  /\ shared.minContentLength = 0
  /\ \E k \in 1..Len(executed) : executed[k].tier = 3 /\ ~executed[k].accepted
  /\ extractAggressively(document).found
  /\ TextLength(extractAggressively(document).text) = 0
  /\ TextLength(extracted.text) > 0

\* -------------------------------- properties of the handler's responses
\* the site services whose fetchArticle the handler called
ServicesInvoked ==
  { invoked[k][1] : k \in { j \in 1..Len(invoked) : invoked[j][2] = "fetchArticle" } }

FetchCalls ==
  Cardinality({ k \in 1..Len(invoked) : invoked[k][2] = "fetchArticle" })

\* C40: the handler sends exactly one response per request: never a second
\* one, and it does not come to rest before it has sent one; and it calls
\* the fetchArticle of at most one site service, the NYT one when the URL
\* passes both domain tests.
ExactlyOneResponse ==
  /\ Len(sent) <= 1
  /\ (rpc = "responded") = (Len(sent) = 1)
  /\ Len(sent) = 1 => sent[1] = response /\ response.status \in {200, 400, 500}
  /\ ~(ENABLED NextApi) => rpc = "responded" /\ Len(sent) = 1
  /\ FetchCalls <= 1
  /\ Cardinality(ServicesInvoked) <= 1
  /\ (isNYTimes(url) /\ FetchCalls = 1) => ServicesInvoked = {"nyt"}

\* a request for a host that passes both domain tests was answered once,
\* with content the NYT service fetched
ExactlyOneResponseWitness ==
  /\ rpc = "responded"
  /\ isNYTimes(url) /\ isWSJ(url)
  /\ invoked = << <<"nyt", "fetchArticle">>, <<"contentProcessor", "extractContent">> >>
  /\ Len(sent) = 1
  /\ response.success
====
